---- MODULE Spec2Model ----
(***************************************************************************)
(* Resilience patterns of tygwan/skills.                                   *)
(*                                                                         *)
(* Part 1: resilience-patterns/scripts/circuit_breaker.py                  *)
(*   CircuitBreaker          - specification Spec                          *)
(*   AdaptiveCircuitBreaker  - specifications SpecAdaptive,                *)
(*                             SpecAdaptiveRace (two callers, unlocked     *)
(*                             statements interleaved)                     *)
(*   the lock of a breaker   - specification SpecLock                      *)
(*                                                                         *)
(* The breaker object is the record cb, one field per attribute of the     *)
(* Python object (the leading underscore of private attributes dropped).   *)
(* datetime.now() is the integer clock now.  A call through call() or the  *)
(* context manager is two steps, admission and outcome, so that calls of   *)
(* several threads overlap as they do around the func call in the source.  *)
(*                                                                         *)
(* Part 2: resilience-patterns/scripts/rate_limiter.py                     *)
(*   RateLimiter             - specifications SpecLimiter, SpecLimiterAny  *)
(*   DistributedRateLimiter  - specifications SpecDistributed,             *)
(*                             SpecDistributedRace                         *)
(* Part 3: resilience-patterns/scripts/retry_policy.py                     *)
(*   RetryPolicy             - specifications SpecDelay, SpecRetry,        *)
(*                             SpecRetryTypes                              *)
(*   RetryAttemptIterator    - specifications SpecAttempts, SpecManual     *)
(* Part 4: resilience-patterns/scripts/dlq.py                              *)
(*   DeadLetterQueue         - specifications SpecQueue, SpecQueueFile,    *)
(*                             SpecGuard, SpecQueueFaulty, SpecReplayAll,  *)
(*                             SpecQueueCounters                           *)
(*                                                                         *)
(* Every specification starts the objects of the other parts as Unused and *)
(* leaves them alone.  now, pc and last are shared: the clock, the         *)
(* position of each thread and the outcome of the last operation.          *)
(***************************************************************************)
EXTENDS Integers, Sequences, FiniteSets

\* ------------------------------------------------------------------ bounds
MaxTime == 2          \* the clock runs 0..MaxTime
MaxCalls == 4         \* invocations of the protected operation, CircuitBreaker
MaxAdaptiveCalls == 11 \* the same, AdaptiveCircuitBreaker (one more than the sample minimum)
MaxThreshold == 2     \* failure_threshold, success_threshold drawn from 1..MaxThreshold
MaxRequests == 3      \* RateLimiter: allow() calls between two reset() of every key
MaxChecks == 3        \* DistributedRateLimiter: allow() calls made
MaxAttempts == 3      \* RetryPolicy: max_attempts drawn from 1..MaxAttempts
MaxSends == 3         \* DeadLetterQueue: send() calls made, over all instances
MaxRestarts == 1      \* DeadLetterQueue: new instances started on the file of the old one

\* --------------------------------------------------------------- constants
CLOSED == "CLOSED"
OPEN == "OPEN"
HALF_OPEN == "HALF_OPEN"
CircuitState == {CLOSED, OPEN, HALF_OPEN}

None == -1            \* Optional[datetime] = None

Threads == {1, 2}      \* concurrent callers of one breaker
Timeouts == {1, 2}     \* timeout, in clock ticks

VARIABLES
    cb,           \* the CircuitBreaker / AdaptiveCircuitBreaker object
    now,          \* datetime.now()
    pc,           \* per thread: "idle", "call" (inside func of call()), "with" (inside a with body)
    invocations,  \* how many times the protected operation was started
    probe_successes, \* history: successes recorded since the breaker last entered HALF_OPEN
    last,         \* the last operation: what it was, what it raised or returned, observer calls
    rl,           \* the RateLimiter object
    dl,           \* the DistributedRateLimiter object
    redis,        \* the store behind dl: per key a sorted set and its expiry
    rp,           \* the RetryPolicy object
    frame,        \* per thread: the locals of the method it is running
    hist,         \* history kept for the properties of parts 2, 3 and 4
    dlq,          \* the DeadLetterQueue object
    disk          \* the file behind a file-backed dlq: what json.dump last wrote

vars == <<cb, now, pc, invocations, probe_successes, last, rl, dl, redis, rp, frame, hist, dlq, disk>>

\* an object the specification at hand does not use
Unused == "unused"

\* what the circuit breaker's operations leave alone
others_cb == <<rl, dl, redis, rp, frame, hist, dlq, disk>>

\* the circuit breaker, for the specifications of the other parts
others_breaker == <<cb, invocations, probe_successes>>

UnusedLimiter == rl = Unused

UnusedDistributed == dl = Unused /\ redis = Unused

UnusedRetry == rp = Unused

UnusedQueue == dlq = Unused /\ disk = Unused

UnusedBreaker == cb = Unused /\ invocations = 0 /\ probe_successes = 0

\* What the caller of an operation sees.
\* get_metrics() of no call
NoMetrics ==
    [state |-> "", failure_count |-> None, success_count |-> None,
     total_calls |-> None, total_failures |-> None, total_successes |-> None,
     failure_rate |-> <<None, None>>, last_failure_time |-> None, opened_at |-> None]

Result(op, raised, wait, value, step) ==
    [op |-> op, raised |-> raised, wait |-> wait, value |-> value,
     metrics |-> NoMetrics,
     notified |-> step.notified, observer_raised |-> step.observer_raised]

\* The outcome of a piece of code that may call _transition_to: the object
\* after it, the observer invocations it made, whether the observer raised
\* and whether that exception left _transition_to.
Quiet(b) == [b |-> b, notified |-> <<>>, observer_raised |-> FALSE, escaped |-> FALSE]

\* -------------------------------------------------------- CircuitBreaker
\* __init__
NewCircuitBreaker(ft, st, to, obs) ==
    [failure_threshold |-> ft, success_threshold |-> st, timeout |-> to,
     on_state_change |-> obs,
     state |-> CLOSED, failure_count |-> 0, success_count |-> 0,
     last_failure_time |-> None, opened_at |-> None,
     total_calls |-> 0, total_failures |-> 0, total_successes |-> 0]

\* variant: the timeout is not waited for
should_attempt_reset_no_wait(b, t) == b.opened_at # None

\* _should_attempt_reset
should_attempt_reset(b, t) ==
    IF b.opened_at = None THEN FALSE
    ELSE (t - b.opened_at) >= b.timeout

\* variant: the observer is called outside try/except
callback_escapes_uncaught(raises) == raises

\* try: on_state_change(...) except Exception: logger.error(...)
callback_escapes(raises) == FALSE

\* variant: closing the circuit keeps opened_at
transition_to_keeps_opened_at(b, new_state, t, raises) ==
    LET old_state == b.state
        b1 == [b EXCEPT !.state = new_state]
        b2 == IF new_state = OPEN THEN [b1 EXCEPT !.opened_at = t]
              ELSE IF new_state = CLOSED
                   THEN [b1 EXCEPT !.failure_count = 0, !.success_count = 0]
              ELSE b1
        invoked == b.on_state_change /\ old_state # new_state
    IN  [b |-> b2,
         notified |-> IF invoked THEN << <<old_state, new_state>> >> ELSE <<>>,
         observer_raised |-> invoked /\ raises,
         escaped |-> invoked /\ raises /\ callback_escapes(raises)]

\* _transition_to; raises: whether the observer, if invoked, raises
transition_to(b, new_state, t, raises) ==
    LET old_state == b.state
        b1 == [b EXCEPT !.state = new_state]
        b2 == IF new_state = OPEN THEN [b1 EXCEPT !.opened_at = t]
              ELSE IF new_state = CLOSED
                   THEN [b1 EXCEPT !.failure_count = 0, !.success_count = 0,
                                   !.opened_at = None]
              ELSE b1
        invoked == b.on_state_change /\ old_state # new_state
    IN  [b |-> b2,
         notified |-> IF invoked THEN << <<old_state, new_state>> >> ELSE <<>>,
         observer_raised |-> invoked /\ raises,
         escaped |-> invoked /\ raises /\ callback_escapes(raises)]

\* the state property
state_property(b, t, raises) ==
    IF b.state = OPEN /\ should_attempt_reset(b, t)
    THEN transition_to(b, HALF_OPEN, t, raises)
    ELSE Quiet(b)

\* CircuitBreaker._on_success
base_on_success(b, t, raises) ==
    LET b1 == [b EXCEPT !.total_calls = @ + 1, !.total_successes = @ + 1,
                        !.failure_count = 0]
    IN  IF b1.state = HALF_OPEN
        THEN LET b2 == [b1 EXCEPT !.success_count = @ + 1]
             IN  IF b2.success_count >= b2.success_threshold
                 THEN transition_to(b2, CLOSED, t, raises)
                 ELSE Quiet(b2)
        ELSE Quiet(b1)

\* variant: the circuit opens one failure late (> for >=)
base_on_failure_late(b, t, raises) ==
    LET b1 == [b EXCEPT !.total_calls = @ + 1, !.total_failures = @ + 1,
                        !.last_failure_time = t]
    IN  IF b1.state = HALF_OPEN
        THEN transition_to(b1, OPEN, t, raises)
        ELSE LET b2 == [b1 EXCEPT !.failure_count = @ + 1]
             IN  IF b2.failure_count > b2.failure_threshold
                 THEN transition_to(b2, OPEN, t, raises)
                 ELSE Quiet(b2)

\* CircuitBreaker._on_failure
base_on_failure(b, t, raises) ==
    LET b1 == [b EXCEPT !.total_calls = @ + 1, !.total_failures = @ + 1,
                        !.last_failure_time = t]
    IN  IF b1.state = HALF_OPEN
        THEN transition_to(b1, OPEN, t, raises)
        ELSE LET b2 == [b1 EXCEPT !.failure_count = @ + 1]
             IN  IF b2.failure_count >= b2.failure_threshold
                 THEN transition_to(b2, OPEN, t, raises)
                 ELSE Quiet(b2)

\* ------------------------------------------------ AdaptiveCircuitBreaker
MinSamples == 10

Max(a, b) == IF a >= b THEN a ELSE b

Min(a, b) == IF a <= b THEN a ELSE b

\* AdaptiveCircuitBreaker.__init__
NewAdaptiveCircuitBreaker(baseline, period, lo, hi, st, to, obs, t) ==
    [failure_threshold |-> baseline, success_threshold |-> st, timeout |-> to,
     on_state_change |-> obs,
     state |-> CLOSED, failure_count |-> 0, success_count |-> 0,
     last_failure_time |-> None, opened_at |-> None,
     total_calls |-> 0, total_failures |-> 0, total_successes |-> 0,
     baseline_threshold |-> baseline, adaptation_period |-> period,
     min_threshold |-> lo, max_threshold |-> hi,
     last_adaptation |-> t, window_calls |-> 0, window_failures |-> 0]

\* isinstance(self, AdaptiveCircuitBreaker)
IsAdaptive(b) == "window_calls" \in DOMAIN b

\* variant: >= 0.3
error_rate_high_inclusive(wf, wc) == 10 * wf >= 3 * wc

\* error_rate = window_failures / window_calls; error_rate > 0.3
error_rate_high(wf, wc) == 10 * wf > 3 * wc

\* error_rate < 0.05
error_rate_low(wf, wc) == 20 * wf < wc

\* _maybe_adapt_threshold
maybe_adapt_threshold(b, t) ==
    LET elapsed == t - b.last_adaptation
    IN  IF elapsed < b.adaptation_period THEN b
        ELSE IF b.window_calls < MinSamples THEN b
        ELSE LET new_threshold ==
                     IF error_rate_high(b.window_failures, b.window_calls)
                     THEN Max(b.min_threshold, b.failure_threshold - 1)
                     ELSE IF error_rate_low(b.window_failures, b.window_calls)
                     THEN Min(b.max_threshold, b.failure_threshold + 1)
                     ELSE b.failure_threshold
             IN  [b EXCEPT !.failure_threshold = new_threshold,
                           !.last_adaptation = t,
                           !.window_calls = 0, !.window_failures = 0]

\* AdaptiveCircuitBreaker._on_success
adaptive_on_success(b, t, raises) ==
    LET s == base_on_success(b, t, raises)
        b1 == [s.b EXCEPT !.window_calls = @ + 1]
    IN  [s EXCEPT !.b = maybe_adapt_threshold(b1, t)]

\* AdaptiveCircuitBreaker._on_failure
adaptive_on_failure(b, t, raises) ==
    LET s == base_on_failure(b, t, raises)
        b1 == [s.b EXCEPT !.window_calls = @ + 1, !.window_failures = @ + 1]
    IN  [s EXCEPT !.b = maybe_adapt_threshold(b1, t)]

\* self._on_success() / self._on_failure(e): the subclass overrides both
on_success(b, t, raises) ==
    IF IsAdaptive(b) THEN adaptive_on_success(b, t, raises)
    ELSE base_on_success(b, t, raises)

on_failure(b, t, raises) ==
    IF IsAdaptive(b) THEN adaptive_on_failure(b, t, raises)
    ELSE base_on_failure(b, t, raises)

\* the bound on started operations
CallBudget(b) == IF IsAdaptive(b) THEN MaxAdaptiveCalls ELSE MaxCalls

\* probe_successes after a step from b to b2 in which `outcome` was recorded
\* ("" when the step records none)
ProbeAfter(b, b2, outcome, n) ==
    IF b.state = HALF_OPEN /\ outcome = "success" THEN n + 1
    ELSE IF b.state # HALF_OPEN /\ b2.state = HALF_OPEN THEN 0
    ELSE n

\* The exception that reaches the caller when the observer's exception
\* leaves _transition_to, else what the operation itself raises.
Raised(step, otherwise) == IF step.escaped THEN "callback" ELSE otherwise

\* ---------------------------------------------------------------- actions
\* whether the observer raises when it is invoked; there is none to raise
\* when on_state_change is None
ObserverOutcomes == IF cb.on_state_change THEN BOOLEAN ELSE {FALSE}

Init ==
    /\ \E ft \in 1..MaxThreshold, st \in 1..MaxThreshold, to \in Timeouts,
          obs \in BOOLEAN :
          cb = NewCircuitBreaker(ft, st, to, obs)
    /\ now = 0
    /\ pc = [t \in Threads |-> "idle"]
    /\ invocations = 0
    /\ probe_successes = 0
    /\ last = Result("init", "none", None, "", Quiet(cb))
    /\ UnusedLimiter /\ UnusedDistributed /\ UnusedRetry /\ UnusedQueue
    /\ frame = Unused /\ hist = Unused

\* time passes
Tick ==
    /\ now < MaxTime
    /\ now' = now + 1
    /\ last' = Result("tick", "none", None, "", Quiet(cb))
    /\ UNCHANGED <<cb, pc, invocations, probe_successes>>
    /\ UNCHANGED others_cb

\* call(), up to the point where func is entered
Call(t, raises) ==
    /\ pc[t] = "idle"
    /\ LET s == state_property(cb, now, raises)
           current_state == s.b.state
       IN  /\ cb' = s.b
           /\ probe_successes' = ProbeAfter(cb, s.b, "", probe_successes)
           /\ IF s.escaped
              THEN /\ last' = Result("call", "callback", None, current_state, s)
                   /\ UNCHANGED <<pc, invocations>>
              ELSE IF current_state = OPEN
              THEN /\ last' = Result("call", "CircuitBreakerOpen", s.b.timeout,
                                     current_state, s)
                   /\ UNCHANGED <<pc, invocations>>
              ELSE /\ invocations < CallBudget(cb)
                   /\ invocations' = invocations + 1
                   /\ pc' = [pc EXCEPT ![t] = "call"]
                   /\ last' = Result("call", "none", None, current_state, s)
    /\ UNCHANGED now
    /\ UNCHANGED others_cb

\* what the protected operation does
Outcomes == {"success", "classified", "unclassified"}

\* call(): result = func(); self._on_success(); except
\* self.expected_exceptions: self._on_failure(e); any other exception
\* leaves call() untouched
call_outcome(b, outcome, t, raises) ==
    IF outcome = "success" THEN on_success(b, t, raises)
    ELSE IF outcome = "classified" THEN on_failure(b, t, raises)
    ELSE Quiet(b)

\* variant: every exception of the body counts as a failure
exit_outcome_counts_all(b, outcome, t, raises) ==
    IF outcome = "success" THEN on_success(b, t, raises)
    ELSE on_failure(b, t, raises)

\* __exit__: exc_type is None, or issubclass(exc_type, expected_exceptions),
\* or neither
exit_outcome(b, outcome, t, raises) ==
    IF outcome = "success" THEN on_success(b, t, raises)
    ELSE IF outcome = "classified" THEN on_failure(b, t, raises)
    ELSE Quiet(b)

\* call(), from the return of func on
CallReturn(t, outcome, raises) ==
    /\ pc[t] = "call"
    /\ LET s == call_outcome(cb, outcome, now, raises)
           exc == IF outcome = "success" THEN "none" ELSE outcome
       IN  /\ cb' = s.b
           /\ probe_successes' = ProbeAfter(cb, s.b, outcome, probe_successes)
           /\ last' = Result("call_return", Raised(s, exc), None, outcome, s)
    /\ pc' = [pc EXCEPT ![t] = "idle"]
    /\ UNCHANGED <<now, invocations>>
    /\ UNCHANGED others_cb

\* __enter__
Enter(t, raises) ==
    /\ pc[t] = "idle"
    /\ LET s == state_property(cb, now, raises)
           current_state == s.b.state
       IN  /\ cb' = s.b
           /\ probe_successes' = ProbeAfter(cb, s.b, "", probe_successes)
           /\ IF s.escaped
              THEN /\ last' = Result("enter", "callback", None, current_state, s)
                   /\ UNCHANGED <<pc, invocations>>
              ELSE IF current_state = OPEN
              THEN /\ last' = Result("enter", "CircuitBreakerOpen", None,
                                     current_state, s)
                   /\ UNCHANGED <<pc, invocations>>
              ELSE /\ invocations < CallBudget(cb)
                   /\ invocations' = invocations + 1
                   /\ pc' = [pc EXCEPT ![t] = "with"]
                   /\ last' = Result("enter", "none", None, current_state, s)
    /\ UNCHANGED now
    /\ UNCHANGED others_cb

\* __exit__; it returns False, so the exception of the body propagates
Exit(t, outcome, raises) ==
    /\ pc[t] = "with"
    /\ LET s == exit_outcome(cb, outcome, now, raises)
           exc == IF outcome = "success" THEN "none" ELSE outcome
       IN  /\ cb' = s.b
           /\ probe_successes' = ProbeAfter(cb, s.b, outcome, probe_successes)
           /\ last' = Result("exit", Raised(s, exc), None, outcome, s)
    /\ pc' = [pc EXCEPT ![t] = "idle"]
    /\ UNCHANGED <<now, invocations>>
    /\ UNCHANGED others_cb

\* a read of the state property by the caller
StateRead(raises) ==
    /\ LET s == state_property(cb, now, raises)
       IN  /\ cb' = s.b
           /\ probe_successes' = ProbeAfter(cb, s.b, "", probe_successes)
           /\ last' = Result("state", Raised(s, "none"), None, s.b.state, s)
    /\ UNCHANGED <<now, pc, invocations>>
    /\ UNCHANGED others_cb

\* the dictionary get_metrics returns; failure_rate as <<numerator, denominator>>
get_metrics(b) ==
    [state |-> b.state,
     failure_count |-> b.failure_count,
     success_count |-> b.success_count,
     total_calls |-> b.total_calls,
     total_failures |-> b.total_failures,
     total_successes |-> b.total_successes,
     failure_rate |-> <<b.total_failures, Max(1, b.total_calls)>>,
     last_failure_time |-> b.last_failure_time,
     opened_at |-> b.opened_at]

GetMetrics ==
    /\ last' = [Result("get_metrics", "none", None, "", Quiet(cb))
                    EXCEPT !.metrics = get_metrics(cb)]
    /\ UNCHANGED <<cb, now, pc, invocations, probe_successes>>
    /\ UNCHANGED others_cb

\* reset()
Reset(raises) ==
    /\ LET s == transition_to(cb, CLOSED, now, raises)
       IN  /\ cb' = s.b
           /\ probe_successes' = ProbeAfter(cb, s.b, "", probe_successes)
           /\ last' = Result("reset", Raised(s, "none"), None, "", s)
    /\ UNCHANGED <<now, pc, invocations>>
    /\ UNCHANGED others_cb

Next ==
    \/ Tick
    \/ \E t \in DOMAIN pc, raises \in ObserverOutcomes : Call(t, raises)
    \/ \E t \in DOMAIN pc, o \in Outcomes, raises \in ObserverOutcomes : CallReturn(t, o, raises)
    \/ \E t \in DOMAIN pc, raises \in ObserverOutcomes : Enter(t, raises)
    \/ \E t \in DOMAIN pc, o \in Outcomes, raises \in ObserverOutcomes : Exit(t, o, raises)
    \/ \E raises \in ObserverOutcomes : StateRead(raises)
    \/ GetMetrics
    \/ \E raises \in ObserverOutcomes : Reset(raises)

Spec == Init /\ [][Next]_vars

\* one caller of an AdaptiveCircuitBreaker
AdaptiveBaselines == {1, 2, 3, 4}   \* baseline_failure_threshold
AdaptiveBounds == {<<2, 3>>}         \* <<min_threshold, max_threshold>>
AdaptivePeriods == {0, 1}           \* adaptation_period

InitAdaptive ==
    /\ \E baseline \in AdaptiveBaselines, period \in AdaptivePeriods,
          bounds \in AdaptiveBounds :
          cb = NewAdaptiveCircuitBreaker(baseline, period, bounds[1], bounds[2],
                                         1, 1, FALSE, 0)
    /\ now = 0
    /\ pc = [t \in {1} |-> "idle"]
    /\ invocations = 0
    /\ probe_successes = 0
    /\ last = Result("init", "none", None, "", Quiet(cb))
    /\ UnusedLimiter /\ UnusedDistributed /\ UnusedRetry /\ UnusedQueue
    /\ frame = Unused /\ hist = Unused

SpecAdaptive == InitAdaptive /\ [][Next]_vars

\* ------------------------------------------------------------ properties
\* the step records the outcome of a protected operation
OutcomeStep == last'.op \in {"call_return", "exit"}

\* the timeout has elapsed since the circuit opened
TimeoutElapsed == cb.opened_at # None /\ now - cb.opened_at >= cb.timeout

\* C1: in CLOSED a classified failure adds one to the consecutive-failure
\* count and opens the circuit exactly when that count reaches
\* failure_threshold; a success sets the count to 0, keeps the lifetime
\* failure total and keeps the circuit CLOSED.
C1_ClosedOpensAtThreshold ==
    [][(cb.state = CLOSED /\ OutcomeStep) =>
        /\ last'.value = "classified" =>
              /\ cb'.failure_count = cb.failure_count + 1
              /\ cb'.state \in {CLOSED, OPEN}
              /\ (cb'.state = OPEN) <=> (cb.failure_count + 1 = cb.failure_threshold)
        /\ last'.value = "success" =>
              /\ cb'.failure_count = 0
              /\ cb'.total_failures = cb.total_failures
              /\ cb'.state = CLOSED]_vars

C1_Witness ==
    /\ last.op = "call_return" /\ last.value = "classified"
    /\ last.notified = << <<CLOSED, OPEN>> >>
    /\ cb.failure_threshold = 2 /\ cb.failure_count = 2 /\ cb.total_successes > 0

\* C2: while OPEN with less than timeout elapsed since opened_at, call() and
\* __enter__ raise CircuitBreakerOpen and start no operation.
C2_OpenRejectsWithoutInvoking ==
    [][(cb.state = OPEN /\ ~TimeoutElapsed /\ last'.op \in {"call", "enter"}) =>
        /\ last'.raised = "CircuitBreakerOpen"
        /\ invocations' = invocations
        /\ pc' = pc
        /\ cb'.state = OPEN]_vars

C2_Witness ==
    /\ last.op = "enter" /\ last.raised = "CircuitBreakerOpen"
    /\ cb.state = OPEN /\ now > cb.opened_at /\ invocations = 2

\* C3: a success in HALF_OPEN closes the circuit exactly when
\* success_threshold successes have been recorded since the breaker entered
\* HALF_OPEN (else it stays HALF_OPEN), and closing leaves both streak
\* counters 0.
C3_HalfOpenClosesAtThreshold ==
    [][(cb.state = HALF_OPEN /\ OutcomeStep /\ last'.value = "success") =>
        /\ cb'.state \in {HALF_OPEN, CLOSED}
        /\ (cb'.state = CLOSED) <=> (probe_successes' >= cb.success_threshold)
        /\ cb'.state = CLOSED =>
              cb'.failure_count = 0 /\ cb'.success_count = 0]_vars

\* C4: a classified failure in HALF_OPEN opens the circuit at once and leaves
\* consecutive_successes and consecutive_failures 0.
C4_HalfOpenFailureResetsStreaks ==
    [][(cb.state = HALF_OPEN /\ OutcomeStep /\ last'.value = "classified") =>
        /\ cb'.state = OPEN
        /\ cb'.success_count = 0
        /\ cb'.failure_count = 0]_vars

\* the state an operation reported or acted on
Reported(l) == IF l.op = "get_metrics" THEN l.metrics.state ELSE l.value

\* C5: the state property, call(), __enter__ and get_metrics() never report
\* or act on OPEN once timeout has elapsed since opened_at.
C5_EveryReadAppliesLazyCheck ==
    [][(cb.state = OPEN /\ TimeoutElapsed
            /\ last'.op \in {"state", "call", "enter", "get_metrics"}) =>
        /\ Reported(last') # OPEN
        /\ last'.raised # "CircuitBreakerOpen"]_vars

\* C6: a call() rejected because the circuit is OPEN carries timeout minus
\* the time elapsed since opened_at.
C6_RejectionCarriesRemainingTime ==
    [][(last'.op = "call" /\ last'.raised = "CircuitBreakerOpen") =>
        last'.wait = cb'.timeout - (now - cb'.opened_at)]_vars

\* C7: an unclassified failure reaches the caller and leaves the state, the
\* streak counters, opened_at and the lifetime totals as they were, through
\* call() and through the context manager.
C7_UnclassifiedFailureNotCounted ==
    [][(OutcomeStep /\ last'.value = "unclassified") =>
        /\ last'.raised = "unclassified"
        /\ cb' = cb]_vars

C7_Witness ==
    /\ last.op = "exit" /\ last.value = "unclassified"
    /\ cb.state = HALF_OPEN /\ cb.success_count = 1

\* C8: a configured observer is invoked exactly once, with (old, new), in
\* every step that changes the state and in no other; the change is made
\* also when the observer raises, and its exception reaches no caller.
C8_ObserverOncePerTransition ==
    [][cb.on_state_change =>
        /\ cb'.state # cb.state => last'.notified = << <<cb.state, cb'.state>> >>
        /\ cb'.state = cb.state => last'.notified = <<>>
        /\ last'.raised # "callback"]_vars

C8_Witness ==
    /\ last.observer_raised /\ last.raised = "none"
    /\ last.notified = << <<HALF_OPEN, CLOSED>> >>
    /\ cb.state = CLOSED

\* C9: reset() leaves the breaker CLOSED with both streak counters 0 and
\* opened_at empty, and keeps the lifetime totals.
C9_ResetForcesClosed ==
    [][(last'.op = "reset") =>
        /\ cb'.state = CLOSED
        /\ cb'.failure_count = 0 /\ cb'.success_count = 0
        /\ cb'.opened_at = None
        /\ cb'.total_calls = cb.total_calls
        /\ cb'.total_failures = cb.total_failures
        /\ cb'.total_successes = cb.total_successes]_vars

C9_Witness ==
    /\ last.op = "reset" /\ last.notified = << <<OPEN, CLOSED>> >>
    /\ cb.total_failures = 2 /\ cb.opened_at = None

\* C10: failure_threshold changes only at an adaptation: a counted outcome
\* with adaptation_period elapsed since the last adaptation and at least 10
\* calls in the window.  An adaptation with error rate > 30% sets the
\* threshold one lower, floored at min_threshold; with error rate < 5% one
\* higher, capped at max_threshold; else keeps it; and it empties the window.
C10_AdaptationRule ==
    [][LET counted == OutcomeStep /\ last'.value \in {"success", "classified"}
           wc == cb.window_calls + 1
           wf == cb.window_failures + (IF last'.value = "classified" THEN 1 ELSE 0)
           due == /\ counted
                  /\ now - cb.last_adaptation >= cb.adaptation_period
                  /\ wc >= 10
           ft == cb.failure_threshold
       IN  /\ ~due =>
                 /\ cb'.failure_threshold = ft
                 /\ cb'.last_adaptation = cb.last_adaptation
                 /\ cb'.window_calls = IF counted THEN wc ELSE cb.window_calls
                 /\ cb'.window_failures = IF counted THEN wf ELSE cb.window_failures
           /\ due =>
                 /\ cb'.window_calls = 0 /\ cb'.window_failures = 0
                 /\ cb'.last_adaptation = now
                 /\ cb'.failure_threshold =
                        IF 10 * wf > 3 * wc
                        THEN (IF ft - 1 >= cb.min_threshold THEN ft - 1
                              ELSE cb.min_threshold)
                        ELSE IF 20 * wf < wc
                        THEN (IF ft + 1 <= cb.max_threshold THEN ft + 1
                              ELSE cb.max_threshold)
                        ELSE ft]_vars

C10_Witness ==
    /\ last.op = "call_return" /\ last.value = "classified"
    /\ cb.baseline_threshold = 3 /\ cb.failure_threshold = 2
    /\ cb.window_calls = 0 /\ cb.total_calls = 10

\* ------------------------------------------------------------ RateLimiter
\* Time is counted in ticks of 100 ms (the longest pause of wait_for_token),
\* and per is a whole number of ticks.  The code holds a bucket's tokens as
\* a float; the model holds them exactly, as the integer tokens * per:
\*   capacity tokens          are  capacity * per  units,
\*   elapsed * refill_rate    is   elapsed * rate  units,
\*   a request for n tokens   asks for  n * per    units.
\* What the code loses to float rounding is outside the model.

\* time.sleep(min(wait_time, 0.1)): the longest pause between two polls, in ticks
PollCap == 1

Keys == {"", "a"}

\* amounts a caller asks for: the intended ones, and every int allow() takes
Amounts == {1, 2}

AnyAmounts == Amounts \cup {-1, 0}

RateChoices == {1, 2}

PerChoices == {1, 2}

BurstChoices == {0, 1}

\* Optional[str] arguments of reset(): <<>> is None, <<k>> is the key k
KeyArgs == {<<>>} \cup {<<k>> : k \in Keys}

NoBuckets == [k \in {} |-> 0]

Put(f, k, v) == [x \in DOMAIN f \cup {k} |-> IF x = k THEN v ELSE f[x]]

Drop(f, k) == [x \in DOMAIN f \ {k} |-> f[x]]

\* __init__; refill_rate = rate / per is kept as the pair of its terms
NewRateLimiter(rate, per, burst) ==
    [rate |-> rate, per |-> per, burst |-> burst,
     capacity |-> rate + burst, refill_rate |-> <<rate, per>>,
     buckets |-> NoBuckets,
     total_requests |-> 0, total_allowed |-> 0, total_rejected |-> 0]

NewBucket(l, t) ==
    [tokens |-> l.capacity * l.per, last_update |-> t,
     requests |-> 0, allowed |-> 0, rejected |-> 0]

\* _get_bucket: the limiter with the key's bucket in place
get_bucket(l, key, t) ==
    IF key \in DOMAIN l.buckets THEN l
    ELSE [l EXCEPT !.buckets = Put(@, key, NewBucket(l, t))]

\* _refill_tokens
refill_tokens(l, bucket, t) ==
    LET elapsed == t - bucket.last_update
        tokens_to_add == elapsed * l.rate
    IN  [bucket EXCEPT !.tokens = Min(l.capacity * l.per, @ + tokens_to_add),
                       !.last_update = t]

allow_ignores_burst(l, key, tokens, t) ==
    LET l1 == get_bucket(l, key, t)
        b0 == l1.buckets[key]
        bucket == [b0 EXCEPT !.tokens = Min(l.rate * l.per, @ + (t - b0.last_update) * l.rate),
                             !.last_update = t,
                             !.requests = @ + 1]
    IN  IF bucket.tokens >= tokens * l.per
        THEN [l |-> [l1 EXCEPT !.total_requests = @ + 1, !.total_allowed = @ + 1,
                               !.buckets[key] = [bucket EXCEPT !.tokens = @ - tokens * l.per,
                                                               !.allowed = @ + 1]],
              value |-> TRUE]
        ELSE [l |-> [l1 EXCEPT !.total_requests = @ + 1, !.total_rejected = @ + 1,
                               !.buckets[key] = [bucket EXCEPT !.rejected = @ + 1]],
              value |-> FALSE]

\* allow(key, tokens) at time t: the limiter after it and what it returned
allow(l, key, tokens, t) ==
    LET l1 == get_bucket(l, key, t)
        refilled == refill_tokens(l1, l1.buckets[key], t)
        bucket == [refilled EXCEPT !.requests = @ + 1]
    IN  IF bucket.tokens >= tokens * l.per
        THEN [l |-> [l1 EXCEPT !.total_requests = @ + 1, !.total_allowed = @ + 1,
                               !.buckets[key] = [bucket EXCEPT !.tokens = @ - tokens * l.per,
                                                               !.allowed = @ + 1]],
              value |-> TRUE]
        ELSE [l |-> [l1 EXCEPT !.total_requests = @ + 1, !.total_rejected = @ + 1,
                               !.buckets[key] = [bucket EXCEPT !.rejected = @ + 1]],
              value |-> FALSE]

\* int(x) for x = num / den, den > 0: truncation towards zero
int(num, den) == IF num >= 0 THEN num \div den ELSE -((-num) \div den)

queried_keeps_last_update(l, key, t) ==
    LET l1 == get_bucket(l, key, t)
    IN  [l1 EXCEPT !.buckets[key].tokens = refill_tokens(l1, l1.buckets[key], t).tokens]

\* the limiter after a refill-aware query of the key
queried(l, key, t) ==
    LET l1 == get_bucket(l, key, t)
    IN  [l1 EXCEPT !.buckets[key] = refill_tokens(l1, @, t)]

\* remaining(key)
remaining(l, key, t) ==
    LET l2 == queried(l, key, t)
    IN  [l |-> l2, value |-> int(l2.buckets[key].tokens, l.per)]

\* reset_time(key): ticks until full, as the fraction <<numerator, denominator>>
reset_time(l, key, t) ==
    LET l2 == queried(l, key, t)
        tokens_to_refill == l.capacity * l.per - l2.buckets[key].tokens
    IN  [l |-> l2,
         value |-> IF tokens_to_refill > 0 THEN <<tokens_to_refill, l.rate>> ELSE <<0, 1>>]

\* "if key:" - None and the empty string are both false
truthy(key) == key # <<>> /\ key[1] # ""

\* reset(key)
reset(l, key) ==
    IF truthy(key)
    THEN [l EXCEPT !.buckets = Drop(@, key[1])]
    ELSE [l EXCEPT !.buckets = NoBuckets,
                   !.total_requests = 0, !.total_allowed = 0, !.total_rejected = 0]

\* --------------------------------------- RateLimiter: operations as steps
\* allow, remaining, reset_time and reset run under the limiter's lock and
\* are one step each, made by any thread.  wait_for_token holds the lock
\* only inside allow and while it computes its pause, so a thread in it
\* moves through pc: "poll" (about to call allow), "rejected" (allow
\* returned False), "sleeping" (inside time.sleep).

\* what the rate limiter's operations leave alone
others_rl == <<cb, invocations, probe_successes, dl, redis, rp, dlq, disk>>

\* the threads inside wait_for_token; every other caller makes one-step calls
Waiters == {1}

WaitTimeouts == Timeouts \cup {None}

NoFrame == [key |-> "", tokens |-> 0, timeout |-> None, start_time |-> 0,
            pause |-> 0, slept_at |-> 0]

\* The outcome of a step: value is what allow / remaining / reset_time
\* returned, shadow what allow returned on the limiter of hist.shadow,
\* raised the exception leaving wait_for_token, pause the argument of
\* time.sleep as a number of 1/rate ticks.
LimiterResult(op, key, tokens, value, shadow, raised, pause) ==
    [op |-> op, key |-> key, tokens |-> tokens, value |-> value,
     shadow |-> shadow, raised |-> raised, pause |-> pause]

\* hist.shadow: the limiter as it would be had no remaining() and no
\* reset_time() call ever been made on it.
\* hist.queried: the keys to whose bucket a remaining() or reset_time()
\* call has added tokens.
\* hist.fresh: the keys whose bucket has seen nothing but single-token
\* allow calls, all of them at the time the bucket was created.
FreshAfterAllow(l, fresh, key, tokens, t) ==
    IF /\ tokens = 1
       /\ \/ key \notin DOMAIN l.buckets
          \/ key \in fresh /\ l.buckets[key].last_update = t
    THEN fresh \cup {key}
    ELSE fresh \ {key}

InitLimiter ==
    /\ \E rate \in RateChoices, per \in PerChoices, burst \in BurstChoices :
           rl = NewRateLimiter(rate, per, burst)
    /\ hist = [shadow |-> rl, queried |-> {}, fresh |-> {}]
    /\ now = 0
    /\ pc = [t \in Waiters |-> "idle"]
    /\ frame = [t \in Waiters |-> NoFrame]
    /\ last = LimiterResult("init", "", 0, FALSE, FALSE, "none", 0)
    /\ UnusedBreaker /\ UnusedDistributed /\ UnusedRetry /\ UnusedQueue

\* allow(key, tokens) called directly
Allow(key, tokens) ==
    /\ rl.total_requests < MaxRequests
    /\ LET r == allow(rl, key, tokens, now)
           s == allow(hist.shadow, key, tokens, now)
       IN  /\ rl' = r.l
           /\ hist' = [shadow |-> s.l, queried |-> hist.queried,
                       fresh |-> FreshAfterAllow(rl, hist.fresh, key, tokens, now)]
           /\ last' = LimiterResult("allow", key, tokens, r.value, s.value, "none", 0)
    /\ UNCHANGED <<now, pc, frame>>
    /\ UNCHANGED others_rl

\* remaining(key)
Remaining(key) ==
    /\ LET r == remaining(rl, key, now)
       IN  /\ rl' = r.l
           /\ last' = LimiterResult("remaining", key, 0, r.value, FALSE, "none", 0)
    /\ hist' = [hist EXCEPT !.fresh = @ \ {key},
                             !.queried = IF /\ key \in DOMAIN rl.buckets
                                            /\ rl'.buckets[key].tokens > rl.buckets[key].tokens
                                         THEN @ \cup {key} ELSE @]
    /\ UNCHANGED <<now, pc, frame>>
    /\ UNCHANGED others_rl

\* reset_time(key)
ResetTime(key) ==
    /\ LET r == reset_time(rl, key, now)
       IN  /\ rl' = r.l
           /\ last' = LimiterResult("reset_time", key, 0, r.value, FALSE, "none", 0)
    /\ hist' = [hist EXCEPT !.fresh = @ \ {key},
                             !.queried = IF /\ key \in DOMAIN rl.buckets
                                            /\ rl'.buckets[key].tokens > rl.buckets[key].tokens
                                         THEN @ \cup {key} ELSE @]
    /\ UNCHANGED <<now, pc, frame>>
    /\ UNCHANGED others_rl

\* reset(key), key an Optional[str]
ResetLimiter(key) ==
    /\ rl' = reset(rl, key)
    /\ hist' = [shadow |-> reset(hist.shadow, key),
                queried |-> hist.queried \cap DOMAIN rl'.buckets,
                fresh |-> hist.fresh \cap DOMAIN rl'.buckets]
    /\ last' = LimiterResult("reset", key, 0, FALSE, FALSE, "none", 0)
    /\ UNCHANGED <<now, pc, frame>>
    /\ UNCHANGED others_rl

\* wait_for_token(key, tokens, timeout): start_time = time.time()
WaitStart(t, key, tokens, timeout) ==
    /\ pc[t] = "idle"
    /\ frame' = [frame EXCEPT ![t] = [key |-> key, tokens |-> tokens, timeout |-> timeout,
                                      start_time |-> now, pause |-> 0, slept_at |-> 0]]
    /\ pc' = [pc EXCEPT ![t] = "poll"]
    /\ last' = LimiterResult("wait_for_token", key, tokens, FALSE, FALSE, "none", 0)
    /\ UNCHANGED <<now, rl, hist>>
    /\ UNCHANGED others_rl

\* wait_for_token: "if self.allow(key, tokens): return True"
WaitPoll(t) ==
    /\ pc[t] = "poll"
    /\ rl.total_requests < MaxRequests
    /\ LET f == frame[t]
           r == allow(rl, f.key, f.tokens, now)
           s == allow(hist.shadow, f.key, f.tokens, now)
       IN  /\ rl' = r.l
           /\ hist' = [shadow |-> s.l, queried |-> hist.queried,
                       fresh |-> FreshAfterAllow(rl, hist.fresh, f.key, f.tokens, now)]
           /\ last' = LimiterResult("poll", f.key, f.tokens, r.value, s.value, "none", 0)
           /\ pc' = [pc EXCEPT ![t] = IF r.value THEN "idle" ELSE "rejected"]
           /\ frame' = [frame EXCEPT ![t] = IF r.value THEN NoFrame ELSE @]
    /\ UNCHANGED now
    /\ UNCHANGED others_rl

\* wait_for_token after a rejected poll: the timeout check, then the pause
\* computed under the lock and handed to time.sleep, which raises
\* ValueError for a negative argument.
\*   wait_time = tokens_needed / refill_rate is, in ticks,
\*   (tokens * per - bucket tokens in units) / rate
WaitPause(t) ==
    /\ pc[t] = "rejected"
    /\ LET f == frame[t]
           elapsed == now - f.start_time
           timed_out == f.timeout # None /\ elapsed >= f.timeout
           l1 == get_bucket(rl, f.key, now)
           tokens_needed == f.tokens * rl.per - l1.buckets[f.key].tokens
           pause == Min(tokens_needed, PollCap * rl.rate)
       IN  IF timed_out
           THEN /\ last' = LimiterResult("pause", f.key, f.tokens, FALSE, FALSE, "TimeoutError", 0)
                /\ pc' = [pc EXCEPT ![t] = "idle"]
                /\ frame' = [frame EXCEPT ![t] = NoFrame]
                /\ UNCHANGED <<rl, hist>>
           ELSE /\ rl' = l1
                /\ hist' = [hist EXCEPT !.shadow = get_bucket(@, f.key, now)]
                /\ IF pause < 0
                   THEN /\ last' = LimiterResult("pause", f.key, f.tokens, FALSE, FALSE,
                                                 "ValueError", pause)
                        /\ pc' = [pc EXCEPT ![t] = "idle"]
                        /\ frame' = [frame EXCEPT ![t] = NoFrame]
                   ELSE /\ last' = LimiterResult("pause", f.key, f.tokens, FALSE, FALSE,
                                                 "none", pause)
                        /\ pc' = [pc EXCEPT ![t] = "sleeping"]
                        /\ frame' = [frame EXCEPT ![t] = [@ EXCEPT !.pause = pause,
                                                                   !.slept_at = now]]
    /\ UNCHANGED now
    /\ UNCHANGED others_rl

\* time.sleep returns once the pause has passed
WaitWake(t) ==
    /\ pc[t] = "sleeping"
    /\ (now - frame[t].slept_at) * rl.rate >= frame[t].pause
    /\ pc' = [pc EXCEPT ![t] = "poll"]
    /\ last' = LimiterResult("wake", frame[t].key, frame[t].tokens, FALSE, FALSE, "none",
                             frame[t].pause)
    /\ UNCHANGED <<now, rl, hist, frame>>
    /\ UNCHANGED others_rl

\* the limiter's one-step operations, called at any times on any keys
NextLimiter ==
    \/ Tick
    \/ \E key \in Keys, tokens \in Amounts : Allow(key, tokens)
    \/ \E key \in Keys : Remaining(key)
    \/ \E key \in Keys : ResetTime(key)
    \/ \E key \in KeyArgs : ResetLimiter(key)

SpecLimiter == InitLimiter /\ [][NextLimiter]_vars

\* the same when callers pass any int as the amount
NextLimiterAny ==
    \/ Tick
    \/ \E key \in Keys, tokens \in AnyAmounts : Allow(key, tokens)
    \/ \E key \in Keys : Remaining(key)
    \/ \E key \in Keys : ResetTime(key)
    \/ \E key \in KeyArgs : ResetLimiter(key)

SpecLimiterAny == InitLimiter /\ [][NextLimiterAny]_vars

\* a thread in wait_for_token for WaitKey while other threads call allow,
\* remaining, reset_time and reset for the same key
WaitKey == "a"

NextLimiterWait ==
    \/ Tick
    \/ \E tokens \in Amounts : Allow(WaitKey, tokens)
    \/ Remaining(WaitKey)
    \/ ResetTime(WaitKey)
    \/ \E key \in {<<>>, <<WaitKey>>} : ResetLimiter(key)
    \/ \E t \in Waiters, tokens \in Amounts, timeout \in WaitTimeouts :
           WaitStart(t, WaitKey, tokens, timeout)
    \/ \E t \in Waiters : WaitPoll(t)
    \/ \E t \in Waiters : WaitPause(t)
    \/ \E t \in Waiters : WaitWake(t)

SpecLimiterWait == InitLimiter /\ [][NextLimiterWait]_vars

\* ------------------------------------------------- claims on RateLimiter
\* C11: a key's bucket starts with capacity = rate + burst tokens.  While
\* no time has passed since the bucket was created and only single-token
\* allow() calls were made on it, the admitted calls are the first
\* `capacity` of them and all later ones are rejected.  From an empty
\* bucket, a single-token allow() after an idle time of `elapsed` is
\* admitted iff elapsed * rate >= per, that is elapsed >= per / rate, and at
\* elapsed = per / rate it leaves the bucket empty again (exactly one call
\* became admittable); remaining() after that idle time reports
\* min(capacity, whole tokens refilled).
C11_StartsFullAndRefillsOnePerInterval ==
    [][/\ \A k \in hist'.fresh :
              LET b == rl'.buckets[k]
              IN  /\ b.allowed = Min(b.requests, rl.rate + rl.burst)
                  /\ b.rejected = b.requests - b.allowed
                  /\ b.tokens = (rl.rate + rl.burst - b.allowed) * rl.per
       /\ \A k \in DOMAIN rl.buckets :
              LET elapsed == now - rl.buckets[k].last_update
              IN  rl.buckets[k].tokens = 0 =>
                     /\ last'.op = "allow" /\ last'.key = k /\ last'.tokens = 1 =>
                            /\ last'.value = (elapsed * rl.rate >= rl.per)
                            /\ elapsed * rl.rate = rl.per => rl'.buckets[k].tokens = 0
                     /\ last'.op = "remaining" /\ last'.key = k =>
                            last'.value = Min(rl.rate + rl.burst,
                                              (elapsed * rl.rate) \div rl.per)
      ]_vars

\* the bucket admitted `capacity` calls, rejected the next, and after the
\* refill interval admitted one more
C11_Witness ==
    /\ "a" \in DOMAIN rl.buckets
    /\ last.op = "allow" /\ last.key = "a" /\ last.value = TRUE
    /\ rl.buckets["a"].allowed = rl.capacity + 1
    /\ rl.buckets["a"].rejected = 1
    /\ rl.buckets["a"].tokens = 0

\* C12: for every key, whatever allow (with any amount it accepts),
\* remaining, reset_time and reset calls were made at whatever times, the
\* bucket's token count lies within [0, capacity].
C12_TokensWithinCapacity ==
    \A k \in DOMAIN rl.buckets :
        /\ 0 <= rl.buckets[k].tokens
        /\ rl.buckets[k].tokens <= rl.capacity * rl.per

\* C13: a wait_for_token call with a finite timeout ends only by returning
\* after an admitted allow, or by raising TimeoutError once the elapsed
\* wait has reached the timeout, whatever other threads do to the limiter
\* meanwhile; and every pause between two polls lasts at least 0 and at
\* most PollCap.
C13_WaitEndsAdmittedOrTimedOut ==
    [][\A t \in DOMAIN pc :
           frame[t].timeout # None =>
           /\ pc[t] = "poll" /\ pc'[t] = "idle" =>
                  /\ last'.op = "poll" /\ last'.value = TRUE
                  /\ rl'.total_allowed = rl.total_allowed + 1
           /\ pc[t] = "rejected" /\ pc'[t] = "idle" =>
                  /\ last'.raised = "TimeoutError"
                  /\ now - frame[t].start_time >= frame[t].timeout
           /\ pc[t] = "rejected" /\ pc'[t] # "rejected" =>
                  /\ 0 <= last'.pause
                  /\ last'.pause <= PollCap * rl.rate
      ]_vars

\* C14: remaining(key) and reset_time(key) change no request, allowed or
\* rejected counter and take no token out of any bucket (the key's bucket
\* is created full if missing, and refilled), and every allow() call
\* returns what it returns on a limiter that received the same allow() and
\* reset() calls at the same times but no remaining() or reset_time() call.
C14_QueriesDoNotChangeAdmission ==
    [][/\ last'.op \in {"remaining", "reset_time"} =>
              /\ rl'.total_requests = rl.total_requests
              /\ rl'.total_allowed = rl.total_allowed
              /\ rl'.total_rejected = rl.total_rejected
              /\ DOMAIN rl'.buckets = DOMAIN rl.buckets \cup {last'.key}
              /\ \A k \in DOMAIN rl'.buckets :
                     LET old == IF k \in DOMAIN rl.buckets THEN rl.buckets[k]
                                ELSE NewBucket(rl, now)
                         new == rl'.buckets[k]
                     IN  /\ new.requests = old.requests
                         /\ new.allowed = old.allowed
                         /\ new.rejected = old.rejected
                         /\ new.tokens >= old.tokens
                         /\ k # last'.key => new = old
       /\ last'.op = "allow" => last'.value = last'.shadow
      ]_vars

\* an allow() admitted on a bucket to which a query had added tokens, after
\* a call on it was rejected
C14_Witness ==
    /\ last.op = "allow" /\ last.value = TRUE /\ last.key \in hist.queried
    /\ rl.buckets[last.key].rejected >= 1
    /\ hist.shadow.buckets[last.key] = rl.buckets[last.key]

\* C15: reset(key) with a key given drops that key's bucket only, leaving
\* every other bucket and the global counters as they were; reset() with
\* no key drops every bucket and zeroes the global counters.
C15_ResetDropsOnlyGivenKey ==
    [][last'.op = "reset" =>
          IF last'.key # <<>>
          THEN /\ DOMAIN rl'.buckets = DOMAIN rl.buckets \ {last'.key[1]}
               /\ \A k \in DOMAIN rl'.buckets : rl'.buckets[k] = rl.buckets[k]
               /\ rl'.total_requests = rl.total_requests
               /\ rl'.total_allowed = rl.total_allowed
               /\ rl'.total_rejected = rl.total_rejected
          ELSE /\ DOMAIN rl'.buckets = {}
               /\ rl'.total_requests = 0
               /\ rl'.total_allowed = 0
               /\ rl'.total_rejected = 0
      ]_vars

\* --------------------------------------------------- DistributedRateLimiter
\* The clock counts seconds here and per is a whole number of seconds.
\* redis maps a redis key to [zset, expire_at]: zset is the sorted set as a
\* function from member to score, expire_at the time the key goes away
\* (None: never).

\* str(now), the member added for a call: one text per number
str(x) == <<"str", x>>

\* __init__
NewDistributedRateLimiter(rate, per, key_prefix) ==
    [rate |-> rate, per |-> per, key_prefix |-> key_prefix,
     algorithm |-> "sliding_window"]

\* _get_redis_key
get_redis_key(d, key) == <<d.key_prefix, key>>

NoKeys == [k \in {} |-> 0]

\* the keys the server still holds at time t
unexpired(store, t) ==
    [k \in {x \in DOMAIN store : store[x].expire_at = None \/ store[x].expire_at > t}
        |-> store[k]]

\* the sorted set under a key; a missing key is an empty set
zset_of(store, redis_key) ==
    IF redis_key \in DOMAIN store THEN store[redis_key].zset ELSE NoKeys

\* writing a sorted set back: an empty set is no key at all, and a key
\* that is created has no expiry until EXPIRE is called
with_zset(store, redis_key, z) ==
    IF DOMAIN z = {} THEN Drop(store, redis_key)
    ELSE Put(store, redis_key,
             [zset |-> z,
              expire_at |-> IF redis_key \in DOMAIN store
                            THEN store[redis_key].expire_at ELSE None])

\* ZREMRANGEBYSCORE key -inf max
zremrangebyscore(store, redis_key, max) ==
    LET z == zset_of(store, redis_key)
    IN  with_zset(store, redis_key, [m \in {x \in DOMAIN z : z[x] > max} |-> z[m]])

\* ZCARD key
zcard(store, redis_key) == Cardinality(DOMAIN zset_of(store, redis_key))

\* ZADD key {member: score}
zadd(store, redis_key, member, score) ==
    with_zset(store, redis_key, Put(zset_of(store, redis_key), member, score))

\* EXPIRE key seconds, at server time t
expire(store, redis_key, seconds, t) ==
    IF redis_key \in DOMAIN store
    THEN [store EXCEPT ![redis_key].expire_at = t + seconds]
    ELSE store

admitted_inclusive(request_count, rate) == request_count <= rate

\* "return request_count < self.rate"
admitted(request_count, rate) == request_count < rate

\* allow(key), the pipeline run by the server as one unit at time t
distributed_allow(d, store, key, t) ==
    LET redis_key == get_redis_key(d, key)
        window_start == t - d.per
        s0 == unexpired(store, t)
        s1 == zremrangebyscore(s0, redis_key, window_start)
        request_count == zcard(s1, redis_key)
        s2 == zadd(s1, redis_key, str(t), t)
        s3 == expire(s2, redis_key, int(d.per, 1) + 1, t)
    IN  [store |-> s3, request_count |-> request_count,
         value |-> admitted(request_count, d.rate)]

\* -------------------------- DistributedRateLimiter: allow() as steps
\* hist.calls: the allow() calls that returned, in the order they returned:
\* the key, the timestamp the call read, the count it observed and what it
\* returned.  hist.started: the calls begun.

\* the values of per, in seconds
WindowChoices == {1, 2, 3}

\* what the distributed limiter's operations leave alone
others_dl == <<cb, invocations, probe_successes, rl, rp, dlq, disk>>

DistributedResult(op, key, request_count, value) ==
    [op |-> op, key |-> key, request_count |-> request_count, value |-> value]

Returned(h, key, t, request_count, value) ==
    [h EXCEPT !.calls = Append(@, [key |-> key, now |-> t,
                                   request_count |-> request_count, value |-> value])]

InitDistributed ==
    /\ \E rate \in RateChoices, per \in WindowChoices :
           dl = NewDistributedRateLimiter(rate, per, "rate_limit")
    /\ redis = NoKeys
    /\ hist = [calls |-> <<>>, started |-> 0]
    /\ now = 0
    /\ pc = [t \in Threads |-> "idle"]
    /\ frame = [t \in Threads |-> [key |-> "", now |-> 0, request_count |-> 0]]
    /\ last = DistributedResult("init", "", 0, FALSE)
    /\ UnusedBreaker /\ UnusedLimiter /\ UnusedRetry /\ UnusedQueue

\* allow(key) against a store that runs the pipeline as one unit
DistributedAllow(key) ==
    /\ hist.started < MaxChecks
    /\ LET r == distributed_allow(dl, redis, key, now)
       IN  /\ redis' = r.store
           /\ hist' = Returned([hist EXCEPT !.started = @ + 1], key, now,
                               r.request_count, r.value)
           /\ last' = DistributedResult("allow", key, r.request_count, r.value)
    /\ UNCHANGED <<now, pc, frame, dl>>
    /\ UNCHANGED others_dl

NextDistributed ==
    \/ Tick
    \/ \E key \in Keys : DistributedAllow(key)

SpecDistributed == InitDistributed /\ [][NextDistributed]_vars

\* The same pipeline against a store that runs its commands one at a time,
\* letting the commands of other callers in between.
\* now = time.time(), then ZREMRANGEBYSCORE
Prune(t, key) ==
    /\ pc[t] = "idle"
    /\ hist.started < MaxChecks
    /\ redis' = zremrangebyscore(unexpired(redis, now), get_redis_key(dl, key), now - dl.per)
    /\ frame' = [frame EXCEPT ![t] = [key |-> key, now |-> now, request_count |-> 0]]
    /\ pc' = [pc EXCEPT ![t] = "pruned"]
    /\ hist' = [hist EXCEPT !.started = @ + 1]
    /\ last' = DistributedResult("zremrangebyscore", key, 0, FALSE)
    /\ UNCHANGED <<now, dl>>
    /\ UNCHANGED others_dl

\* ZCARD
Count(t) ==
    /\ pc[t] = "pruned"
    /\ LET n == zcard(unexpired(redis, now), get_redis_key(dl, frame[t].key))
       IN  /\ frame' = [frame EXCEPT ![t].request_count = n]
           /\ last' = DistributedResult("zcard", frame[t].key, n, FALSE)
    /\ redis' = unexpired(redis, now)
    /\ pc' = [pc EXCEPT ![t] = "counted"]
    /\ UNCHANGED <<now, dl, hist>>
    /\ UNCHANGED others_dl

\* ZADD and EXPIRE, then the comparison and the return
Insert(t) ==
    /\ pc[t] = "counted"
    /\ LET f == frame[t]
           redis_key == get_redis_key(dl, f.key)
           s2 == zadd(unexpired(redis, now), redis_key, str(f.now), f.now)
           value == admitted(f.request_count, dl.rate)
       IN  /\ redis' = expire(s2, redis_key, int(dl.per, 1) + 1, now)
           /\ hist' = Returned(hist, f.key, f.now, f.request_count, value)
           /\ last' = DistributedResult("allow", f.key, f.request_count, value)
    /\ pc' = [pc EXCEPT ![t] = "idle"]
    /\ frame' = [frame EXCEPT ![t] = [key |-> "", now |-> 0, request_count |-> 0]]
    /\ UNCHANGED <<now, dl>>
    /\ UNCHANGED others_dl

NextDistributedRace ==
    \/ Tick
    \/ \E t \in Threads, key \in Keys : Prune(t, key)
    \/ \E t \in Threads : Count(t)
    \/ \E t \in Threads : Insert(t)

SpecDistributedRace == InitDistributed /\ [][NextDistributedRace]_vars

\* the calls admitted for the key with a timestamp in the window (a, a + per]
AdmittedInWindow(key, a) ==
    Cardinality({i \in 1..Len(hist.calls) :
                    /\ hist.calls[i].key = key /\ hist.calls[i].value
                    /\ a < hist.calls[i].now /\ hist.calls[i].now <= a + dl.per})

\* C16: with the pipeline run as one unit, at most `rate` calls are admitted
\* per key in any time window of length `per`, calls that read the same
\* timestamp included.
C16_AtMostRatePerWindow ==
    \A key \in Keys : \A a \in -dl.per..MaxTime : AdmittedInWindow(key, a) <= dl.rate

\* C17: against a store that runs the commands one at a time, what a call
\* returns is decided by the count it observed alone: the count is the
\* number of entries the key holds when ZCARD runs, and the call is admitted
\* iff that count is below `rate`, whatever other callers have inserted
\* since.  Two overlapping calls that both observe rate - 1 entries are
\* therefore both admitted (C17_Witness).
C17_AdmissionDecidedByObservedCount ==
    [][\A t \in DOMAIN pc :
           /\ pc[t] = "pruned" /\ pc'[t] = "counted" =>
                  frame'[t].request_count =
                      Cardinality({m \in DOMAIN zset_of(redis, get_redis_key(dl, frame[t].key)) :
                                      redis[get_redis_key(dl, frame[t].key)].expire_at > now})
           /\ pc[t] = "counted" /\ pc'[t] = "idle" =>
                  /\ last'.op = "allow"
                  /\ last'.value = (frame[t].request_count < dl.rate)
                  /\ hist'.calls = Append(hist.calls,
                                          [key |-> frame[t].key, now |-> frame[t].now,
                                           request_count |-> frame[t].request_count,
                                           value |-> last'.value])
      ]_vars

\* rate = 2, no two calls with the same timestamp: two calls less than
\* `per` apart both observed rate - 1 = 1 entry and were both admitted,
\* which makes more than `rate` admitted calls in one window
C17_Witness ==
    /\ dl.rate = 2
    /\ \A i, j \in 1..Len(hist.calls) : i # j => hist.calls[i].now # hist.calls[j].now
    /\ \E i, j \in 1..Len(hist.calls) :
           /\ i # j
           /\ hist.calls[i].key = hist.calls[j].key
           /\ hist.calls[i].now < hist.calls[j].now
           /\ hist.calls[j].now - hist.calls[i].now < dl.per
           /\ hist.calls[i].request_count = dl.rate - 1 /\ hist.calls[i].value
           /\ hist.calls[j].request_count = dl.rate - 1 /\ hist.calls[j].value
           /\ \E a \in -dl.per..MaxTime : AdmittedInWindow(hist.calls[i].key, a) > dl.rate

\* -------------------------------------------------------------- RetryPolicy
\* Delays are whole numbers of tenths of the unit of base_delay, and the
\* configurations drawn keep base_delay and max_delay at multiples of ten
\* tenths, so that the 10% of jitter is a whole number too.

BaseDelays == {0, 10}

MaxDelays == {10, 40}

\* exponential_base is not validated by __init__
ExponentialBases == {-1, 0, 1, 2}

\* exception types: what retryable_exceptions may list and func may raise
ExceptionTypes == {"IOError", "KeyError"}

\* retryable_exceptions: the default (Exception,) or one type only
RetryableChoices == {{"Exception"}, {"IOError"}}

\* base ** n for an int n >= 0; x ** 0 is 1 for every x
RECURSIVE Pow(_, _)
Pow(base, n) == IF n = 0 THEN 1 ELSE base * Pow(base, n - 1)

\* __init__: the configurations it does not reject
NewRetryPolicy(max_attempts, base_delay, max_delay, exponential_base, jitter, retryable) ==
    [max_attempts |-> max_attempts, base_delay |-> base_delay, max_delay |-> max_delay,
     exponential_base |-> exponential_base, jitter |-> jitter,
     retryable_exceptions |-> retryable]

Accepted(max_attempts, base_delay, max_delay) ==
    ~(max_attempts < 1) /\ ~(base_delay < 0) /\ ~(max_delay < base_delay)

RetryPolicies ==
    {NewRetryPolicy(m, b, x, e, j, r) :
        m \in 1..MaxAttempts, b \in BaseDelays,
        x \in MaxDelays, e \in ExponentialBases, j \in BOOLEAN, r \in RetryableChoices}

\* the delay before jitter
backoff(p, attempt) ==
    Min(p.base_delay * Pow(p.exponential_base, attempt), p.max_delay)

\* delay * 0.1
jitter_amount(delay) == delay \div 10

\* what random.uniform(-jitter_amount, jitter_amount) may return
JitterDraws(p, attempt) ==
    IF p.jitter /\ backoff(p, attempt) > 0
    THEN -jitter_amount(backoff(p, attempt))..jitter_amount(backoff(p, attempt))
    ELSE {0}

\* _calculate_delay(attempt), draw being what random.uniform returned
calculate_delay(p, attempt, draw) ==
    LET delay == backoff(p, attempt)
    IN  IF p.jitter /\ delay > 0 THEN Max(0, delay + draw) ELSE delay

\* what the retry policy's operations leave alone
others_rp == <<cb, invocations, probe_successes, rl, dl, redis, dlq, disk>>

\* _calculate_delay called with any attempt number on any accepted policy.
\* hist.delays: the delays computed so far, by attempt number.
InitDelay ==
    /\ rp \in {p \in RetryPolicies : Accepted(p.max_attempts, p.base_delay, p.max_delay)}
    /\ hist = [delays |-> [n \in {} |-> 0]]
    /\ last = [op |-> "init", attempt |-> 0, value |-> 0]
    /\ now = 0
    /\ pc = [t \in {1} |-> "idle"]
    /\ frame = Unused
    /\ UnusedBreaker /\ UnusedLimiter /\ UnusedDistributed /\ UnusedQueue

CalculateDelay(attempt, draw) ==
    /\ LET delay == calculate_delay(rp, attempt, draw)
       IN  /\ last' = [op |-> "_calculate_delay", attempt |-> attempt, value |-> delay]
           /\ hist' = [hist EXCEPT !.delays = Put(@, attempt, delay)]
    /\ UNCHANGED <<rp, now, pc, frame>>
    /\ UNCHANGED others_rp

NextDelay ==
    \E attempt \in 0..MaxAttempts : \E draw \in JitterDraws(rp, attempt) :
        CalculateDelay(attempt, draw)

SpecDelay == InitDelay /\ [][NextDelay]_vars


\* ------------------------------------- RetryPolicy: retry and retry_if
\* One thread runs one wrapper.  Each step is one turn of the wrapper's
\* loop: the invocation of func, whose outcome is drawn here, and all the
\* wrapper does with it, the sleep included.
\* hist.outcomes: what each invocation of func did, in order.
\* hist.sleeps: the delays time.sleep was called with and slept, in order.
\* The statements after the loops (lines 170 and 234) are never reached:
\* the last turn always returns or raises.

\* what func may do: return a result (again: the retry_if condition is true
\* of it) or raise an exception of some type
FuncOutcomes ==
    {[kind |-> "result", again |-> b, type |-> "none"] : b \in BOOLEAN}
    \cup {[kind |-> "raise", again |-> FALSE, type |-> e] : e \in ExceptionTypes}

catches_everything(p, type) == TRUE

\* "except self.retryable_exceptions": every type is an Exception
catches(p, type) ==
    "Exception" \in p.retryable_exceptions \/ type \in p.retryable_exceptions

is_last_attempt_late(p, attempt_num) == attempt_num >= p.max_attempts

\* "is_last_attempt = (attempt_num + 1 >= self.max_attempts)"
is_last_attempt(p, attempt_num) == attempt_num + 1 >= p.max_attempts

NoValue == [id |-> 0, again |-> FALSE]

NoException == [type |-> "none", id |-> 0]

\* how a turn of the loop ends: "return" (value), "raise" (exception) or
\* "continue" after sleeping `slept`; id is the number of the invocation
\* that produced the value or the exception, 0 for one raised by the wrapper
Turn(how, value, exception, slept) ==
    [how |-> how, value |-> value, exception |-> exception, slept |-> slept]

\* time.sleep(delay) at the end of a turn; a negative delay is a ValueError
sleep_then_continue(delay) ==
    IF delay < 0
    THEN Turn("raise", NoValue, [type |-> "ValueError", id |-> 0], <<>>)
    ELSE Turn("continue", NoValue, NoException, <<delay>>)

\* the except clause of retry and of retry_if
on_exception(p, attempt_num, type, id, draw) ==
    IF ~catches(p, type) \/ is_last_attempt(p, attempt_num)
    THEN Turn("raise", NoValue, [type |-> type, id |-> id], <<>>)
    ELSE sleep_then_continue(calculate_delay(p, attempt_num, draw))

\* one turn of the loop of retry's wrapper
retry_turn(p, attempt_num, outcome, id, draw) ==
    IF outcome.kind = "result"
    THEN Turn("return", [id |-> id, again |-> outcome.again], NoException, <<>>)
    ELSE on_exception(p, attempt_num, outcome.type, id, draw)

\* one turn of the loop of retry_if's wrapper; its time.sleep is inside the
\* try block, so its ValueError goes through the except clause
retry_if_turn(p, attempt_num, outcome, id, draw) ==
    IF outcome.kind = "result"
    THEN IF outcome.again /\ ~is_last_attempt(p, attempt_num)
         THEN LET delay == calculate_delay(p, attempt_num, draw)
              IN  IF delay < 0
                  THEN on_exception(p, attempt_num, "ValueError", 0, draw)
                  ELSE sleep_then_continue(delay)
         ELSE Turn("return", [id |-> id, again |-> outcome.again], NoException, <<>>)
    ELSE on_exception(p, attempt_num, outcome.type, id, draw)

RetryResult(op, turn) ==
    [op |-> op, how |-> turn.how, value |-> turn.value, exception |-> turn.exception]

InitRetry ==
    /\ rp \in {p \in RetryPolicies : Accepted(p.max_attempts, p.base_delay, p.max_delay)}
    /\ hist = [outcomes |-> <<>>, sleeps |-> <<>>]
    /\ last = RetryResult("init", Turn("none", NoValue, NoException, <<>>))
    /\ now = 0
    /\ pc = [t \in {1} |-> "idle"]
    /\ frame = [t \in {1} |-> [wrapper |-> "none", attempt_num |-> 0]]
    /\ UnusedBreaker /\ UnusedLimiter /\ UnusedDistributed /\ UnusedQueue

\* the wrapped function is called: "for attempt_num in range(max_attempts)"
Begin(t, wrapper) ==
    /\ pc[t] = "idle"
    /\ pc' = [pc EXCEPT ![t] = "running"]
    /\ frame' = [frame EXCEPT ![t] = [wrapper |-> wrapper, attempt_num |-> 0]]
    /\ last' = RetryResult("begin", Turn("none", NoValue, NoException, <<>>))
    /\ UNCHANGED <<rp, now, hist>>
    /\ UNCHANGED others_rp

\* a turn of retry's loop
RetryTurn(t, outcome, draw) ==
    /\ pc[t] = "running" /\ frame[t].wrapper = "retry"
    /\ frame[t].attempt_num < rp.max_attempts
    /\ LET id == Len(hist.outcomes) + 1
           turn == retry_turn(rp, frame[t].attempt_num, outcome, id, draw)
       IN  /\ pc' = [pc EXCEPT ![t] = IF turn.how = "continue" THEN "running" ELSE "done"]
           /\ frame' = [frame EXCEPT ![t].attempt_num =
                                         IF turn.how = "continue" THEN @ + 1 ELSE @]
           /\ hist' = [outcomes |-> Append(hist.outcomes, outcome),
                       sleeps |-> hist.sleeps \o turn.slept]
           /\ last' = RetryResult("retry", turn)
    /\ UNCHANGED <<rp, now>>
    /\ UNCHANGED others_rp

\* a turn of retry_if's loop
RetryIfTurn(t, outcome, draw) ==
    /\ pc[t] = "running" /\ frame[t].wrapper = "retry_if"
    /\ frame[t].attempt_num < rp.max_attempts
    /\ LET id == Len(hist.outcomes) + 1
           turn == retry_if_turn(rp, frame[t].attempt_num, outcome, id, draw)
       IN  /\ pc' = [pc EXCEPT ![t] = IF turn.how = "continue" THEN "running" ELSE "done"]
           /\ frame' = [frame EXCEPT ![t].attempt_num =
                                         IF turn.how = "continue" THEN @ + 1 ELSE @]
           /\ hist' = [outcomes |-> Append(hist.outcomes, outcome),
                       sleeps |-> hist.sleeps \o turn.slept]
           /\ last' = RetryResult("retry_if", turn)
    /\ UNCHANGED <<rp, now>>
    /\ UNCHANGED others_rp

NextRetry ==
    \/ \E t \in DOMAIN pc, wrapper \in {"retry", "retry_if"} : Begin(t, wrapper)
    \/ \E t \in DOMAIN pc, outcome \in FuncOutcomes :
           \E draw \in JitterDraws(rp, frame[t].attempt_num) : RetryTurn(t, outcome, draw)
    \/ \E t \in DOMAIN pc, outcome \in FuncOutcomes :
           \E draw \in JitterDraws(rp, frame[t].attempt_num) : RetryIfTurn(t, outcome, draw)

SpecRetry == InitRetry /\ [][NextRetry]_vars

\* ------------------------------------------------- claims on RetryPolicy
\* C18: with jitter disabled, the delay computed for attempt n is
\* min(base_delay * exponential_base^n, max_delay), and the delays are
\* non-decreasing in n, for every configuration __init__ accepts.
C18_DelayExactAndNonDecreasing ==
    ~rp.jitter =>
        \A n \in DOMAIN hist.delays :
            /\ hist.delays[n] = Min(rp.base_delay * Pow(rp.exponential_base, n), rp.max_delay)
            /\ \A m \in DOMAIN hist.delays : n <= m => hist.delays[n] <= hist.delays[m]

\* the values _calculate_delay(attempt) may return
DelayValues(p, attempt) ==
    {calculate_delay(p, attempt, draw) : draw \in JitterDraws(p, attempt)}

\* invocation i of func raised an exception the policy retries
Failed(i) ==
    hist.outcomes[i].kind = "raise" /\ catches(rp, hist.outcomes[i].type)

\* the wrapper has slept n times: delay(0), ..., delay(n - 1) in that order
SleptDelays(n) ==
    /\ Len(hist.sleeps) = n
    /\ \A i \in 1..n : hist.sleeps[i] \in DelayValues(rp, i - 1)

\* C19: the retry wrapper invokes func at most max_attempts times.  As long
\* as every invocation so far raised a retryable failure and fewer than
\* max_attempts were made, it has slept delay(0), ..., delay(k - 1) and goes
\* on to invoke func again; when the invocation after k failures returns,
\* the wrapper returns that result, having slept those k delays; when all
\* max_attempts invocations failed it has slept max_attempts - 1 times and
\* raises the exception of the last invocation.
C19_RetriesUntilSuccessOrExhaustion ==
    frame[1].wrapper = "retry" =>
        LET n == Len(hist.outcomes)
        IN  /\ n <= rp.max_attempts
            /\ (\A i \in 1..n : Failed(i)) /\ n < rp.max_attempts =>
                   pc[1] = "running" /\ SleptDelays(n)
            /\ n >= 1 /\ (\A i \in 1..(n - 1) : Failed(i))
                      /\ hist.outcomes[n].kind = "result" =>
                   /\ pc[1] = "done" /\ last.how = "return" /\ last.value.id = n
                   /\ SleptDelays(n - 1)
            /\ (\A i \in 1..n : Failed(i)) /\ n = rp.max_attempts =>
                   /\ pc[1] = "done" /\ last.how = "raise"
                   /\ last.exception = [type |-> hist.outcomes[n].type, id |-> n]
                   /\ SleptDelays(n - 1)

\* C20: the retry_if wrapper invokes func at most max_attempts times; a
\* result of which the condition is false is the last thing func produced
\* and is what the wrapper returned; and when func returned max_attempts
\* results of which the condition is true, the wrapper returned the last of
\* them, without raising, having slept max_attempts - 1 times and not after
\* the last invocation.
C20_RetryIfReturnsFirstAcceptedOrLast ==
    frame[1].wrapper = "retry_if" =>
        LET n == Len(hist.outcomes)
        IN  /\ n <= rp.max_attempts
            /\ \A i \in 1..n :
                   hist.outcomes[i].kind = "result" /\ ~hist.outcomes[i].again =>
                       /\ i = n
                       /\ pc[1] = "done" /\ last.how = "return"
                       /\ last.value = [id |-> n, again |-> FALSE]
                       /\ Len(hist.sleeps) <= n - 1
            /\ n = rp.max_attempts
                   /\ (\A i \in 1..n : hist.outcomes[i].kind = "result" /\ hist.outcomes[i].again) =>
                   /\ pc[1] = "done" /\ last.how = "return"
                   /\ last.value = [id |-> n, again |-> TRUE]
                   /\ Len(hist.sleeps) = n - 1

\* three results with the condition true: the third is returned after two sleeps
C20_Witness ==
    /\ frame[1].wrapper = "retry_if" /\ rp.max_attempts = 3
    /\ Len(hist.outcomes) = 3
    /\ \A i \in 1..3 : hist.outcomes[i].kind = "result" /\ hist.outcomes[i].again
    /\ pc[1] = "done" /\ last.how = "return" /\ last.value.id = 3
    /\ Len(hist.sleeps) = 2

\* ------------------------------------- RetryAttempt, RetryAttemptIterator
\* The iterator of policy.attempts() is frame[1].iterator; hist.produced
\* holds the RetryAttempt values it has returned, in order.

\* RetryAttempt(number, max_attempts, next_delay)
NewRetryAttempt(number, max_attempts, next_delay) ==
    [number |-> number, max_attempts |-> max_attempts, next_delay |-> next_delay,
     exception |-> None]

\* RetryAttempt.should_retry
should_retry(attempt) == attempt.number < attempt.max_attempts

\* RetryAttempt.wait: the delays slept, none unless next_delay > 0
wait(attempt) == IF attempt.next_delay > 0 THEN <<attempt.next_delay>> ELSE <<>>

\* RetryPolicy.attempts, RetryAttemptIterator.__init__
NewRetryAttemptIterator == [attempt_num |-> 0]

NoAttempt == NewRetryAttempt(None, None, 0)

iterator_next_restarts(p, it, draw) ==
    IF it.attempt_num >= p.max_attempts
    THEN [it |-> NewRetryAttemptIterator, how |-> "StopIteration", value |-> NoAttempt]
    ELSE [it |-> [it EXCEPT !.attempt_num = @ + 1], how |-> "yield",
          value |-> NewRetryAttempt(it.attempt_num, p.max_attempts,
                                    calculate_delay(p, it.attempt_num, draw))]

\* RetryAttemptIterator.__next__, draw being what random.uniform returned
iterator_next(p, it, draw) ==
    IF it.attempt_num >= p.max_attempts
    THEN [it |-> it, how |-> "StopIteration", value |-> NoAttempt]
    ELSE [it |-> [it EXCEPT !.attempt_num = @ + 1], how |-> "yield",
          value |-> NewRetryAttempt(it.attempt_num, p.max_attempts,
                                    calculate_delay(p, it.attempt_num, draw))]

\* the draws __next__ may see: those of the attempt it is about to produce
NextDraws(p, it) ==
    IF it.attempt_num >= p.max_attempts THEN {0} ELSE JitterDraws(p, it.attempt_num)

AttemptResult(op, how, value, exception) ==
    [op |-> op, how |-> how, value |-> value, exception |-> exception]

\* next() called on the iterator at any time, also after it is exhausted
InitAttempts ==
    /\ rp \in {p \in RetryPolicies : Accepted(p.max_attempts, p.base_delay, p.max_delay)}
    /\ hist = [produced |-> <<>>, outcomes |-> <<>>, sleeps |-> <<>>]
    /\ last = AttemptResult("init", "none", NoAttempt, NoException)
    /\ now = 0
    /\ pc = [t \in {1} |-> "idle"]
    /\ frame = [t \in {1} |-> [iterator |-> NewRetryAttemptIterator, attempt |-> NoAttempt]]
    /\ UnusedBreaker /\ UnusedLimiter /\ UnusedDistributed /\ UnusedQueue

IteratorNext(t, draw) ==
    /\ LET r == iterator_next(rp, frame[t].iterator, draw)
       IN  /\ frame' = [frame EXCEPT ![t].iterator = r.it]
           /\ hist' = [hist EXCEPT !.produced =
                                       IF r.how = "yield" THEN Append(@, r.value) ELSE @]
           /\ last' = AttemptResult("next", r.how, r.value, NoException)
    /\ UNCHANGED <<rp, now, pc>>
    /\ UNCHANGED others_rp

NextAttempts ==
    \E t \in DOMAIN pc : \E draw \in NextDraws(rp, frame[t].iterator) : IteratorNext(t, draw)

SpecAttempts == InitAttempts /\ [][NextAttempts]_vars

\* The documented manual loop:
\*   for attempt in policy.attempts():
\*       try: result = operation(); break
\*       except RetryableError: if not attempt.should_retry: raise
\*                              attempt.wait()
\* One step is one turn: next() on the iterator, the operation, whose
\* outcome is drawn, and what the loop body does with it.
ManualTurn(t, outcome, draw) ==
    /\ pc[t] = "idle"
    /\ LET r == iterator_next(rp, frame[t].iterator, draw)
           id == Len(hist.outcomes) + 1
       IN  /\ r.how = "yield"
           /\ frame' = [frame EXCEPT ![t] = [iterator |-> r.it, attempt |-> r.value]]
           /\ IF outcome.kind = "result"
              THEN /\ pc' = [pc EXCEPT ![t] = "done"]
                   /\ hist' = [produced |-> Append(hist.produced, r.value),
                               outcomes |-> Append(hist.outcomes, outcome),
                               sleeps |-> hist.sleeps]
                   /\ last' = AttemptResult("manual", "return", r.value, NoException)
              ELSE IF ~catches(rp, outcome.type) \/ ~should_retry(r.value)
              THEN /\ pc' = [pc EXCEPT ![t] = "done"]
                   /\ hist' = [produced |-> Append(hist.produced, r.value),
                               outcomes |-> Append(hist.outcomes, outcome),
                               sleeps |-> hist.sleeps]
                   /\ last' = AttemptResult("manual", "raise", r.value,
                                            [type |-> outcome.type, id |-> id])
              ELSE /\ pc' = pc
                   /\ hist' = [produced |-> Append(hist.produced, r.value),
                               outcomes |-> Append(hist.outcomes, outcome),
                               sleeps |-> hist.sleeps \o wait(r.value)]
                   /\ last' = AttemptResult("manual", "continue", r.value, NoException)
    /\ UNCHANGED <<rp, now>>
    /\ UNCHANGED others_rp

\* next() raises StopIteration: the for statement ends and the code after
\* the loop runs, no exception raised
ManualEnd(t) ==
    /\ pc[t] = "idle"
    /\ iterator_next(rp, frame[t].iterator, 0).how = "StopIteration"
    /\ pc' = [pc EXCEPT ![t] = "done"]
    /\ last' = AttemptResult("manual", "exhausted", frame[t].attempt, NoException)
    /\ UNCHANGED <<rp, now, frame, hist>>
    /\ UNCHANGED others_rp

NextManual ==
    \/ \E t \in DOMAIN pc, outcome \in FuncOutcomes :
           \E draw \in NextDraws(rp, frame[t].iterator) : ManualTurn(t, outcome, draw)
    \/ \E t \in DOMAIN pc : ManualEnd(t)

SpecManual == InitAttempts /\ [][NextManual]_vars

\* ---------------------------------------- claims on the manual iterator
\* C21: for every attempt the iterator produced, should_retry is true
\* exactly when the iterator will produce a further attempt, that is when
\* fewer than max_attempts have been produced; so when all max_attempts
\* turns of the documented loop failed, the loop has raised the failure of
\* the last turn and has not waited after it.
C21_ShouldRetryFalseOnLastAttempt ==
    LET n == Len(hist.produced)
    IN  /\ \A i \in 1..n : should_retry(hist.produced[i]) = (i < rp.max_attempts)
        /\ n = rp.max_attempts /\ (\A i \in 1..n : Failed(i)) =>
               /\ pc[1] = "done" /\ last.how = "raise"
               /\ last.exception = [type |-> hist.outcomes[n].type, id |-> n]
               /\ Len(hist.sleeps) <= n - 1

\* C22: next() on the iterator of attempts() yields max_attempts values and
\* no more: the n-th call (from 0) yields the RetryAttempt numbered n with
\* the policy's max_attempts and a delay _calculate_delay(n) may return;
\* every later call raises StopIteration and leaves the iterator as it is;
\* no call invokes an operation.
C22_YieldsMaxAttemptsThenStops ==
    [][last'.op = "next" =>
          LET it == frame[1].iterator
              n == Len(hist.produced)
          IN  /\ it.attempt_num = n /\ n <= rp.max_attempts
              /\ invocations' = invocations
              /\ IF n < rp.max_attempts
                 THEN /\ last'.how = "yield"
                      /\ last'.value.number = n
                      /\ last'.value.max_attempts = rp.max_attempts
                      /\ last'.value.next_delay \in DelayValues(rp, n)
                      /\ hist'.produced = Append(hist.produced, last'.value)
                 ELSE /\ last'.how = "StopIteration"
                      /\ hist'.produced = hist.produced
                      /\ frame' = frame
      ]_vars

\* the iterator has yielded three attempts and a later call raised StopIteration
C22_Witness ==
    /\ rp.max_attempts = 3 /\ Len(hist.produced) = 3
    /\ last.op = "next" /\ last.how = "StopIteration"
    /\ \A i \in 1..3 : hist.produced[i].number = i - 1

\* ======================================================================
\* Part 4: DeadLetterQueue (dlq.py)
\*
\* The queue object is the record dlq, one field per attribute the methods
\* read (the leading underscore dropped; max_retry_attempts and
\* storage_config are stored and never read, file_path is the one file
\* disk).  Every public method takes the queue's re-entrant lock for its
\* whole body, so a call is one step whichever thread makes it.  The clock
\* now counts days; two calls at the same now read the same datetime.now().
\* The redis and sqs backends are stubs that persist nothing and behave as
\* the memory backend does.  disk.fault is what the file system does to
\* the next write: "none", "open" (open() raises, the file is untouched) or
\* "dump" (the file is opened and truncated, then the write raises and
\* leaves text json.load cannot read); only SpecQueueFaulty sets a fault.

\* Python values of differing types that meet in one comparison
PyNone == [type |-> "NoneType"]

PyStr(s) == [type |-> "str", value |-> s]

PyDict(items) == [type |-> "dict", items |-> items]

StorageBackend == {"memory", "file"}

\* datetime.isoformat() and datetime.fromisoformat(): the textual form
isoformat(t) == [iso |-> t]

fromisoformat(s) == s.iso

DLQMessage(id, message, reason, timestamp, metadata, source) ==
    [id |-> id, message |-> message, reason |-> reason,
     timestamp |-> timestamp, retry_count |-> 0,
     metadata |-> metadata, source |-> source]

to_dict(m) == [m EXCEPT !.timestamp = isoformat(@)]

from_dict(data) == [data EXCEPT !.timestamp = fromisoformat(@)]

\* a file that does not exist: os.path.exists(file_path) is False
NoFile == [exists |-> FALSE, data |-> <<>>, readable |-> TRUE, fault |-> "none"]

\* json.load raising is caught and logged: the storage stays as it is
load_from_file(q, d) ==
    IF d.readable
    THEN [q EXCEPT !.storage = [i \in DOMAIN d.data |-> from_dict(d.data[i])]]
    ELSE q

\* the body of the try statement of _save_to_file: the file after it, and
\* whether it raised
write_file(q, d) ==
    IF d.fault = "open" THEN [disk |-> d, raised |-> TRUE]
    ELSE IF d.fault = "dump"
    THEN [disk |-> [d EXCEPT !.exists = TRUE, !.data = <<>>, !.readable = FALSE],
          raised |-> TRUE]
    ELSE [disk |-> [d EXCEPT !.exists = TRUE, !.readable = TRUE,
                             !.data = [i \in DOMAIN q.storage |-> to_dict(q.storage[i])]],
          raised |-> FALSE]

\* except Exception: logger.error(...), and the method returns
save_to_file(q, d) == write_file(q, d).disk

persist_message(q, d) ==
    IF q.storage_backend = "file" THEN save_to_file(q, d) ELSE d

init_storage(q, d) ==
    IF q.storage_backend = "file" /\ d.exists THEN load_from_file(q, d) ELSE q

NewDeadLetterQueue(storage_backend, retention_days, alert_threshold, d) ==
    init_storage([storage_backend |-> storage_backend,
                  retention_days |-> retention_days,
                  alert_threshold |-> alert_threshold,
                  storage |-> <<>>,
                  message_counter |-> 0,
                  total_sent |-> 0,
                  total_replayed |-> 0,
                  total_archived |-> 0], d)

\* strftime('%Y%m%d_%H%M%S') keeps the second of the clock reading; the id
\* "dlq_<stamp>_<counter>" is the pair of the stamp and the counter
strftime(t) == [second |-> t]

generate_id(q, t) ==
    LET n == q.message_counter + 1
    IN  [q |-> [q EXCEPT !.message_counter = n],
         id |-> [stamp |-> strftime(t), counter |-> n]]

\* metadata or {}
metadata_or_empty(metadata) ==
    IF metadata = PyNone \/ metadata = PyDict({}) THEN PyDict({}) ELSE metadata

alert_due_above(q) == Len(q.storage) > q.alert_threshold

\* len(self._storage) >= self.alert_threshold: logger.warning is the alert
alert_due(q) == Len(q.storage) >= q.alert_threshold

send_fails_with_file(q, d, t, message, reason, metadata, source) ==
    LET g == generate_id(q, t)
        dlq_message == DLQMessage(g.id, message, reason, t,
                                  metadata_or_empty(metadata), source)
        q1 == [g.q EXCEPT !.storage = Append(@, dlq_message),
                          !.total_sent = @ + 1]
        call == [id |-> g.id, message |-> message, reason |-> reason,
                 metadata |-> metadata, source |-> source]
    IN  IF q1.storage_backend = "file" /\ write_file(q1, d).raised
        THEN [q |-> q1, disk |-> write_file(q1, d).disk,
              alert |-> FALSE, returned |-> PyNone, call |-> call]
        ELSE [q |-> q1, disk |-> persist_message(q1, d),
              alert |-> alert_due(q1), returned |-> g.id, call |-> call]

send(q, d, t, message, reason, metadata, source) ==
    LET g == generate_id(q, t)
        dlq_message == DLQMessage(g.id, message, reason, t,
                                  metadata_or_empty(metadata), source)
        q1 == [g.q EXCEPT !.storage = Append(@, dlq_message),
                          !.total_sent = @ + 1]
    IN  [q |-> q1, disk |-> persist_message(q1, d),
         alert |-> alert_due(q1), returned |-> g.id,
         call |-> [id |-> g.id, message |-> message, reason |-> reason,
                   metadata |-> metadata, source |-> source]]

\* get_messages(limit): a copy of the list, cut to limit when limit is
\* truthy; called without reason_filter
get_messages(q, limit) ==
    IF limit = None \/ limit = 0 THEN q.storage
    ELSE SubSeq(q.storage, 1, Min(limit, Len(q.storage)))

get_message(q, message_id) ==
    LET hits == SelectSeq(q.storage, LAMBDA m : m.id = message_id)
    IN  IF hits = <<>> THEN PyNone ELSE Head(hits)

replay(q, message_id) ==
    IF get_message(q, message_id) = PyNone
    THEN [q |-> q, returned |-> FALSE]
    ELSE [q |-> [q EXCEPT !.storage = SelectSeq(@, LAMBDA m : m.id # message_id),
                          !.total_replayed = @ + 1],
          returned |-> TRUE]

acknowledge(q, message_id) == replay(q, message_id)

archive_counts_replayed(q, message_id) ==
    IF get_message(q, message_id) = PyNone
    THEN [q |-> q, returned |-> FALSE]
    ELSE [q |-> [q EXCEPT !.storage = SelectSeq(@, LAMBDA m : m.id # message_id),
                          !.total_replayed = @ + 1],
          returned |-> TRUE]

archive(q, message_id) ==
    IF get_message(q, message_id) = PyNone
    THEN [q |-> q, returned |-> FALSE]
    ELSE [q |-> [q EXCEPT !.storage = SelectSeq(@, LAMBDA m : m.id # message_id),
                          !.total_archived = @ + 1],
          returned |-> TRUE]

\* older_than_days or self.retention_days, then the cut at now - days
purge(q, t, older_than_days) ==
    LET days == IF older_than_days = None \/ older_than_days = 0
                THEN q.retention_days ELSE older_than_days
        cutoff_date == t - days
        kept == SelectSeq(q.storage, LAMBDA m : m.timestamp > cutoff_date)
    IN  [q |-> [q EXCEPT !.storage = kept],
         returned |-> Len(q.storage) - Len(kept)]

size(q) == Len(q.storage)

\* what the wrapped function does: return a value or raise
FuncReturns(value) == [kind |-> "return", value |-> value]

FuncRaises(type, message) == [kind |-> "raise", type |-> type, message |-> message]

PermanentFailure == "PermanentFailure"

handle_failures_catches_all(q, d, t, func, args, kwargs, outcome) ==
    IF outcome.kind = "return"
    THEN [q |-> q, disk |-> d, alert |-> FALSE, sends |-> <<>>,
          returned |-> outcome.value, raised |-> PyNone]
    ELSE LET sent == send(q, d, t, IF args # <<>> THEN args[1] ELSE kwargs,
                          outcome.message,
                          PyDict({<<"function", func>>}), PyNone)
         IN  [q |-> sent.q, disk |-> sent.disk, alert |-> sent.alert,
              sends |-> <<sent.call>>,
              returned |-> PyNone, raised |-> outcome]

\* the wrapper handle_failures(func) returns, called with args and kwargs
\* while func does outcome; sends lists the send() calls made, each with
\* its arguments and the id it returned
handle_failures(q, d, t, func, args, kwargs, outcome) ==
    IF outcome.kind = "return"
    THEN [q |-> q, disk |-> d, alert |-> FALSE, sends |-> <<>>,
          returned |-> outcome.value, raised |-> PyNone]
    ELSE IF outcome.type = PermanentFailure
    THEN LET sent == send(q, d, t, IF args # <<>> THEN args[1] ELSE kwargs,
                          outcome.message,
                          PyDict({<<"function", func>>}), PyNone)
         IN  [q |-> sent.q, disk |-> sent.disk, alert |-> sent.alert,
              sends |-> <<sent.call>>,
              returned |-> PyNone, raised |-> outcome]
    ELSE [q |-> q, disk |-> d, alert |-> FALSE, sends |-> <<>>,
          returned |-> PyNone, raised |-> outcome]

\* ------------------------------------------------- DeadLetterQueue: steps
\* retention_days and alert_threshold of the queues made
QueueConfigs ==
    {[retention_days |-> 1, alert_threshold |-> 2],
     [retention_days |-> 2, alert_threshold |-> 1]}

\* the arguments of the send() calls made
SendArgs ==
    {[message |-> PyStr("m1"), reason |-> "timeout",
      metadata |-> PyNone, source |-> PyNone],
     [message |-> PyStr("m2"), reason |-> "invalid",
      metadata |-> PyDict({<<"user_id", "u1">>}), source |-> PyStr("orders")]}

\* an id no queue assigns: the counter of an id is at least 1
AbsentId == [stamp |-> strftime(0), counter |-> 0]

\* older_than_days as given: None, or a number of days
DaysArgs == {None} \cup (0..MaxTime)

LimitArgs == {None, 0, 1}

\* the outcomes of a wrapped function, and the calls made of its wrapper
FuncOutcomesOfQueue ==
    {FuncReturns(PyStr("processed")),
     FuncRaises(PermanentFailure, "Invalid message"),
     FuncRaises("ValueError", "try again")}

WrapperCalls ==
    {[args |-> <<PyStr("m1")>>, kwargs |-> PyDict({})],
     [args |-> <<>>, kwargs |-> PyDict({<<"msg", "m2">>})]}

ids(storage) == {storage[i].id : i \in DOMAIN storage}

\* The outcome of a call: args its arguments, returned what it returned
\* (PyNone when it raised), raised what it raised, alert whether send
\* logged the threshold warning, sends the send() calls made.
QueueResult(op, args, returned, raised, alert, sends) ==
    [op |-> op, args |-> args, returned |-> returned, raised |-> raised,
     alert |-> alert, sends |-> sends]

\* hist: calls (of send) and restarts bound the run; held are the ids this
\* instance has held, loaded or assigned
NewHistory(q, calls, restarts) ==
    [calls |-> calls, restarts |-> restarts, held |-> ids(q.storage)]

Recorded(q1, sends) ==
    [hist EXCEPT !.calls = @ + Len(sends),
                 !.held = @ \cup ids(q1.storage)]

InitBackend(storage_backend) ==
    /\ disk = NoFile
    /\ \E c \in QueueConfigs :
           dlq = NewDeadLetterQueue(storage_backend, c.retention_days,
                                    c.alert_threshold, disk)
    /\ hist = NewHistory(dlq, 0, 0)
    /\ last = QueueResult("init", <<>>, PyNone, PyNone, FALSE, <<>>)
    /\ now = 0
    /\ pc = [t \in {1} |-> "idle"]
    /\ frame = Unused
    /\ UnusedBreaker /\ UnusedLimiter /\ UnusedDistributed /\ UnusedRetry

InitQueue == InitBackend("memory")

InitQueueFile == InitBackend("file")

others_dlq == <<cb, invocations, probe_successes, rl, dl, redis, rp, pc, frame>>

Send(a) ==
    /\ hist.calls < MaxSends
    /\ LET r == send(dlq, disk, now, a.message, a.reason, a.metadata, a.source)
       IN  /\ dlq' = r.q
           /\ disk' = r.disk
           /\ last' = QueueResult("send", a, r.returned, PyNone, r.alert, <<r.call>>)
           /\ hist' = Recorded(r.q, <<r.call>>)
    /\ UNCHANGED now
    /\ UNCHANGED others_dlq

GetMessage(message_id) ==
    /\ last' = QueueResult("get_message", message_id,
                           get_message(dlq, message_id), PyNone, FALSE, <<>>)
    /\ UNCHANGED <<dlq, disk, hist, now>>
    /\ UNCHANGED others_dlq

GetMessages(limit) ==
    /\ last' = QueueResult("get_messages", limit,
                           get_messages(dlq, limit), PyNone, FALSE, <<>>)
    /\ UNCHANGED <<dlq, disk, hist, now>>
    /\ UNCHANGED others_dlq

\* replay, acknowledge, archive and purge write nothing to the file
Removal(op, args, r) ==
    /\ dlq' = r.q
    /\ last' = QueueResult(op, args, r.returned, PyNone, FALSE, <<>>)
    /\ hist' = Recorded(r.q, <<>>)
    /\ UNCHANGED <<disk, now>>
    /\ UNCHANGED others_dlq

Replay(message_id) == Removal("replay", message_id, replay(dlq, message_id))

Acknowledge(message_id) ==
    Removal("acknowledge", message_id, acknowledge(dlq, message_id))

Archive(message_id) == Removal("archive", message_id, archive(dlq, message_id))

Purge(older_than_days) ==
    Removal("purge", older_than_days, purge(dlq, now, older_than_days))

HandleFailures(call, outcome) ==
    /\ hist.calls < MaxSends
    /\ LET r == handle_failures(dlq, disk, now, "process_message",
                                call.args, call.kwargs, outcome)
       IN  /\ dlq' = r.q
           /\ disk' = r.disk
           /\ last' = QueueResult("handle_failures", [call |-> call, outcome |-> outcome],
                                  r.returned, r.raised, r.alert, r.sends)
           /\ hist' = Recorded(r.q, r.sends)
    /\ UNCHANGED now
    /\ UNCHANGED others_dlq

\* the process ends and a new DeadLetterQueue is made with the same
\* arguments; a file-backed one finds the file of the old one
Restart ==
    /\ hist.restarts < MaxRestarts
    /\ dlq' = NewDeadLetterQueue(dlq.storage_backend, dlq.retention_days,
                                 dlq.alert_threshold, disk)
    /\ hist' = NewHistory(dlq', hist.calls, hist.restarts + 1)
    /\ last' = QueueResult("init", <<>>, PyNone, PyNone, FALSE, <<>>)
    /\ UNCHANGED <<disk, now>>
    /\ UNCHANGED others_dlq

\* the memory-backed queue
NextQueue ==
    \/ Tick
    \/ \E a \in SendArgs : Send(a)
    \/ \E message_id \in hist.held \cup {AbsentId} :
          \/ GetMessage(message_id)
          \/ Replay(message_id)
          \/ Acknowledge(message_id)
          \/ Archive(message_id)
    \/ \E limit \in LimitArgs : GetMessages(limit)
    \/ \E older_than_days \in DaysArgs : Purge(older_than_days)

SpecQueue == InitQueue /\ [][NextQueue]_vars

\* the file-backed queue and its restarts
NextQueueFile ==
    \/ Tick
    \/ \E a \in SendArgs : Send(a)
    \/ \E message_id \in hist.held \cup {AbsentId} :
          \/ GetMessage(message_id)
          \/ Replay(message_id)
          \/ Acknowledge(message_id)
          \/ Archive(message_id)
    \/ \E older_than_days \in DaysArgs : Purge(older_than_days)
    \/ Restart

SpecQueueFile == InitQueueFile /\ [][NextQueueFile]_vars

\* the guard form around a function, on either backend; a restarted
\* memory-backed queue is empty
NextGuard ==
    \/ \E call \in WrapperCalls : \E outcome \in FuncOutcomesOfQueue :
          HandleFailures(call, outcome)
    \/ \E message_id \in hist.held : Replay(message_id)
    \/ Restart

InitGuard == \E b \in StorageBackend : InitBackend(b)

SpecGuard == InitGuard /\ [][NextGuard]_vars

\* ------------------------------------------------ DeadLetterQueue: claims
\* the sequence s without its i-th element
RemoveAt(s, i) == SubSeq(s, 1, i - 1) \o SubSeq(s, i + 1, Len(s))

\* what a stored message must show of a send() call: the arguments as
\* given, no metadata read as the empty map
ShowsSent(m, call) ==
    /\ m # PyNone
    /\ m.id = call.id
    /\ m.message = call.message
    /\ m.reason = call.reason
    /\ m.metadata = (IF call.metadata = PyNone THEN PyDict({}) ELSE call.metadata)
    /\ m.source = call.source
    /\ m.retry_count = 0

\* C23: send returns an id under which get_message finds a message with
\* exactly the sent payload, reason, metadata and source, that id and
\* retry_count 0; it goes on doing so while the message is in the queue;
\* get_message of an id that is not in the queue returns None.
C23_GetMessageReturnsWhatWasSent ==
    [][/\ last'.op = "send" =>
            ShowsSent(get_message(dlq', last'.returned), last'.sends[1])
       /\ last'.op \in {"send", "replay", "acknowledge", "archive", "purge",
                        "get_message"} =>
            \A id \in ids(dlq.storage) \cap ids(dlq'.storage) :
                get_message(dlq', id) = get_message(dlq, id)
       /\ (last'.op = "get_message" /\ last'.args \notin ids(dlq.storage)) =>
            last'.returned = PyNone]_vars

\* C24: no two messages a queue instance holds or has held, those loaded
\* from the file included, have the same id: the id send assigns is none
\* the instance has held, and the ids in the queue are pairwise distinct.
C24_IdsUniqueAndNeverReused ==
    [][/\ last'.op = "send" => last'.returned \notin hist.held
       /\ \A i, j \in DOMAIN dlq'.storage :
              i # j => dlq'.storage[i].id # dlq'.storage[j].id]_vars

\* C25: after every mutating operation of the file-backed queue a new
\* instance started on the file holds the messages the old one holds.
C25_FileHoldsTheMessageSet ==
    (/\ dlq.storage_backend = "file"
     /\ last.op \in {"send", "replay", "acknowledge", "archive", "purge"})
    => NewDeadLetterQueue(dlq.storage_backend, dlq.retention_days,
                          dlq.alert_threshold, disk).storage = dlq.storage

\* C26: replay and acknowledge of a present id remove exactly that
\* message, leave the others in their order, add 1 to the replayed total
\* and return True; of an absent id they return False and change nothing;
\* nothing is written anywhere else.
C26_ReplayRemovesExactlyThatMessage ==
    [][last'.op \in {"replay", "acknowledge"} =>
        /\ disk' = disk
        /\ IF last'.args \in ids(dlq.storage)
           THEN /\ last'.returned = TRUE
                /\ \E i \in DOMAIN dlq.storage :
                      /\ dlq.storage[i].id = last'.args
                      /\ dlq'.storage = RemoveAt(dlq.storage, i)
                /\ get_message(dlq', last'.args) = PyNone
                /\ last'.args \notin ids(get_messages(dlq', None))
                /\ dlq'.total_replayed = dlq.total_replayed + 1
                /\ dlq'.total_sent = dlq.total_sent
                /\ dlq'.total_archived = dlq.total_archived
           ELSE /\ last'.returned = FALSE
                /\ dlq' = dlq]_vars

\* C27: purge(d) removes exactly the messages whose age is more than d
\* days and keeps those aged d days or less, for every d given; without d
\* it uses retention_days; it returns the number of messages removed.
C27_PurgeRemovesStrictlyOlder ==
    [][last'.op = "purge" =>
        LET d == IF last'.args = None THEN dlq.retention_days ELSE last'.args
            kept == SelectSeq(dlq.storage, LAMBDA m : ~(now - m.timestamp > d))
        IN  /\ dlq'.storage = kept
            /\ last'.returned = Len(dlq.storage) - Len(kept)]_vars

C29_ThirdSendIsFirstToAlert ==
    [][(last'.op = "send" /\ dlq.alert_threshold = 2) =>
        /\ (Len(dlq.storage) = dlq.total_sent /\ dlq'.total_sent <= 2)
               => ~last'.alert
        /\ (Len(dlq.storage) = dlq.total_sent /\ dlq'.total_sent = 3)
               => last'.alert
        /\ (dlq'.total_sent > 3 /\ Len(dlq'.storage) >= 2) => last'.alert]_vars

\* C30: the wrapper of handle_failures calls send exactly once when the
\* function raises PermanentFailure, with the first argument (or the
\* keyword arguments) as message and the failure's text as reason, and
\* re-raises that failure; when the function returns or raises anything
\* else the queue, its counters and the file are unchanged and the result
\* or the failure reaches the caller as it is.
C30_OnlyPermanentFailureIsSent ==
    [][last'.op = "handle_failures" =>
        LET outcome == last'.args.outcome
            call == last'.args.call
        IN  IF outcome.kind = "raise" /\ outcome.type = PermanentFailure
            THEN /\ Len(last'.sends) = 1
                 /\ dlq'.total_sent = dlq.total_sent + 1
                 /\ dlq'.storage = Append(dlq.storage,
                                          dlq'.storage[Len(dlq'.storage)])
                 /\ dlq'.storage[Len(dlq'.storage)].id = last'.sends[1].id
                 /\ last'.sends[1].message =
                        (IF call.args # <<>> THEN call.args[1] ELSE call.kwargs)
                 /\ last'.sends[1].reason = outcome.message
                 /\ last'.raised = outcome
                 /\ last'.returned = PyNone
            ELSE /\ dlq' = dlq
                 /\ disk' = disk
                 /\ last'.sends = <<>>
                 /\ last'.raised = (IF outcome.kind = "raise" THEN outcome ELSE PyNone)
                 /\ last'.returned =
                        (IF outcome.kind = "return" THEN outcome.value ELSE PyNone)]_vars

\* a PermanentFailure of a function called with keyword arguments only has
\* put them into the queue and is raised to the caller
C30_Witness ==
    /\ last.op = "handle_failures"
    /\ last.raised # PyNone /\ last.raised.type = PermanentFailure
    /\ last.args.call.args = <<>>
    /\ Len(last.sends) = 1
    /\ dlq.storage # <<>>
    /\ dlq.storage[Len(dlq.storage)].message = last.args.call.kwargs
    /\ dlq.storage[Len(dlq.storage)].reason = "Invalid message"

\* ---------------------------------------- DeadLetterQueue: a failing file
FileFaults == {"none", "open", "dump"}

\* the file system starts or stops failing: the directory goes away, the
\* disk fills up, a stored payload cannot be serialised
SetFault(fault) ==
    /\ disk.fault # fault
    /\ disk' = [disk EXCEPT !.fault = fault]
    /\ last' = QueueResult("fault", fault, PyNone, PyNone, FALSE, <<>>)
    /\ UNCHANGED <<dlq, hist, now>>
    /\ UNCHANGED others_dlq

NextQueueFaulty ==
    \/ \E a \in SendArgs : Send(a)
    \/ \E fault \in FileFaults : SetFault(fault)
    \/ \E message_id \in hist.held : Replay(message_id)
    \/ Restart

SpecQueueFaulty == InitQueueFile /\ [][NextQueueFaulty]_vars

\* C31: a send whose write of the file fails still returns the new id,
\* has the message in the queue, has counted it in total_sent and has
\* made the alert check on the size after the insertion.
C31_SendSurvivesPersistenceFailure ==
    [][(last'.op = "send" /\ disk.fault # "none") =>
        /\ last'.returned # PyNone
        /\ last'.raised = PyNone
        /\ Len(dlq'.storage) = Len(dlq.storage) + 1
        /\ dlq'.storage[Len(dlq'.storage)].id = last'.returned
        /\ dlq'.storage[Len(dlq'.storage)].message = last'.args.message
        /\ dlq'.total_sent = dlq.total_sent + 1
        /\ last'.alert <=> (Len(dlq.storage) + 1 >= dlq.alert_threshold)]_vars

\* a send alerted although its write left a file that cannot be read
C31_Witness ==
    /\ last.op = "send" /\ last.alert
    /\ disk.fault = "dump" /\ ~disk.readable
    /\ dlq.storage # <<>>
    /\ dlq.storage[Len(dlq.storage)].id = last.returned

\* --------------------------------------------- DeadLetterQueue: replay_all
\* part in whole, for the reasons and reason filters the model uses
is_in(part, whole) ==
    \/ part = ""
    \/ part = whole
    \/ <<part, whole>> \in {<<"time", "timeout">>, <<"in", "invalid">>}

\* the loop over messages_to_replay
RECURSIVE replay_each(_, _)
replay_each(q, message_ids) ==
    IF message_ids = <<>> THEN q
    ELSE replay_each(replay(q, Head(message_ids)).q, Tail(message_ids))

\* reason is PyNone or a PyStr, max_age_hours None or a number of hours;
\* the clock counts days of 24 hours
replay_all(q, t, reason, max_age_hours) ==
    LET skipped(msg) ==
            \/ /\ reason # PyNone /\ reason.value # ""
               /\ ~is_in(reason.value, msg.reason)
            \/ /\ max_age_hours # None /\ max_age_hours # 0
               /\ (t - msg.timestamp) * 24 > max_age_hours
        to_replay == SelectSeq(q.storage, LAMBDA msg : ~skipped(msg))
        messages_to_replay == [i \in DOMAIN to_replay |-> to_replay[i].id]
    IN  [q |-> replay_each(q, messages_to_replay),
         returned |-> Len(messages_to_replay)]

ReasonArgs == {PyNone, PyStr(""), PyStr("time"), PyStr("invalid")}

MaxAgeArgs == {None, 0, 24, 48}

ReplayAll(reason, max_age_hours) ==
    Removal("replay_all", [reason |-> reason, max_age_hours |-> max_age_hours],
            replay_all(dlq, now, reason, max_age_hours))

NextReplayAll ==
    \/ Tick
    \/ \E a \in SendArgs : Send(a)
    \/ \E reason \in ReasonArgs : \E max_age_hours \in MaxAgeArgs :
          ReplayAll(reason, max_age_hours)

SpecReplayAll == InitQueue /\ [][NextReplayAll]_vars

\* C37: replay_all removes the messages that match every filter supplied
\* (the reason filter is contained in the reason, the age in hours is at
\* most max_age_hours) and no other, adds the number removed to the
\* replayed total and returns it; without filters the queue is empty.
C37_ReplayAllRemovesTheMatching ==
    [][last'.op = "replay_all" =>
        LET reason == last'.args.reason
            max_age_hours == last'.args.max_age_hours
            matches(msg) ==
                /\ reason # PyNone => is_in(reason.value, msg.reason)
                /\ max_age_hours # None =>
                       (now - msg.timestamp) * 24 <= max_age_hours
            kept == SelectSeq(dlq.storage, LAMBDA msg : ~matches(msg))
            removed == Len(dlq.storage) - Len(kept)
        IN  /\ dlq'.storage = kept
            /\ dlq'.total_replayed = dlq.total_replayed + removed
            /\ last'.returned = removed
            /\ (reason = PyNone /\ max_age_hours = None) => dlq'.storage = <<>>]_vars

\* the operations that change the memory-backed queue
NextQueueCounters ==
    \/ Tick
    \/ \E a \in SendArgs : Send(a)
    \/ \E message_id \in hist.held \cup {AbsentId} :
          \/ Replay(message_id)
          \/ Archive(message_id)
    \/ \E older_than_days \in DaysArgs : Purge(older_than_days)

SpecQueueCounters == InitQueue /\ [][NextQueueCounters]_vars

\* C38: on the memory-backed queue every step keeps total_sent = size +
\* total_replayed + total_archived + messages purged (each step changes
\* both sides by the same amount, and all are 0 at the start); archive of
\* a present id removes exactly that message and adds 1 to the archived
\* total only; archive of an absent id changes nothing.
C38_CountersAccountForEveryMessage ==
    [][LET purged == IF last'.op = "purge" THEN last'.returned ELSE 0
       IN  /\ dlq'.total_sent - dlq.total_sent =
                  (Len(dlq'.storage) - Len(dlq.storage))
                  + (dlq'.total_replayed - dlq.total_replayed)
                  + (dlq'.total_archived - dlq.total_archived)
                  + purged
           /\ last'.op = "archive" =>
                  IF last'.args \in ids(dlq.storage)
                  THEN /\ last'.returned = TRUE
                       /\ \E i \in DOMAIN dlq.storage :
                             /\ dlq.storage[i].id = last'.args
                             /\ dlq'.storage = RemoveAt(dlq.storage, i)
                       /\ dlq'.total_archived = dlq.total_archived + 1
                       /\ dlq'.total_replayed = dlq.total_replayed
                       /\ dlq'.total_sent = dlq.total_sent
                  ELSE /\ last'.returned = FALSE
                       /\ dlq' = dlq]_vars

\* three messages were sent: one was replayed, one archived, and the purge
\* just made removed the third
C38_Witness ==
    /\ last.op = "purge" /\ last.returned = 1
    /\ dlq.total_sent = 3 /\ dlq.total_replayed = 1 /\ dlq.total_archived = 1
    /\ dlq.storage = <<>>

\* ------------------------------ RetryPolicy: retry_if_exception_type
\* what retry_if_exception_type may be given
ExceptionTypeArgs == {{}, {"IOError"}, {"IOError", "KeyError"}, {"Exception"}}

\* one turn of the loop of retry_if_exception_type's wrapper: the loop of
\* retry with "except exception_types" for "except self.retryable_exceptions"
retry_if_exception_type_turn(p, exception_types, attempt_num, outcome, id, draw) ==
    IF outcome.kind = "result"
    THEN Turn("return", [id |-> id, again |-> outcome.again], NoException, <<>>)
    ELSE on_exception([p EXCEPT !.retryable_exceptions = exception_types],
                      attempt_num, outcome.type, id, draw)

\* the function wrapped by retry_if_exception_type(*exception_types) is called
BeginExceptionType(t, exception_types) ==
    /\ pc[t] = "idle"
    /\ pc' = [pc EXCEPT ![t] = "running"]
    /\ frame' = [frame EXCEPT ![t] = [wrapper |-> "retry_if_exception_type",
                                      attempt_num |-> 0,
                                      exception_types |-> exception_types]]
    /\ last' = RetryResult("begin", Turn("none", NoValue, NoException, <<>>))
    /\ UNCHANGED <<rp, now, hist>>
    /\ UNCHANGED others_rp

\* a turn of retry_if_exception_type's loop
RetryIfExceptionTypeTurn(t, outcome, draw) ==
    /\ pc[t] = "running" /\ frame[t].wrapper = "retry_if_exception_type"
    /\ frame[t].attempt_num < rp.max_attempts
    /\ LET id == Len(hist.outcomes) + 1
           turn == retry_if_exception_type_turn(rp, frame[t].exception_types,
                                                frame[t].attempt_num, outcome, id, draw)
       IN  /\ pc' = [pc EXCEPT ![t] = IF turn.how = "continue" THEN "running" ELSE "done"]
           /\ frame' = [frame EXCEPT ![t].attempt_num =
                                         IF turn.how = "continue" THEN @ + 1 ELSE @]
           /\ hist' = [outcomes |-> Append(hist.outcomes, outcome),
                       sleeps |-> hist.sleeps \o turn.slept]
           /\ last' = RetryResult("retry_if_exception_type", turn)
    /\ UNCHANGED <<rp, now>>
    /\ UNCHANGED others_rp

\* the two exception-driven wrappers
NextRetryTypes ==
    \/ \E t \in DOMAIN pc : Begin(t, "retry")
    \/ \E t \in DOMAIN pc, outcome \in FuncOutcomes :
           \E draw \in JitterDraws(rp, frame[t].attempt_num) : RetryTurn(t, outcome, draw)
    \/ \E t \in DOMAIN pc, exception_types \in ExceptionTypeArgs :
           BeginExceptionType(t, exception_types)
    \/ \E t \in DOMAIN pc, outcome \in FuncOutcomes :
           \E draw \in JitterDraws(rp, frame[t].attempt_num) :
               RetryIfExceptionTypeTurn(t, outcome, draw)

SpecRetryTypes == InitRetry /\ [][NextRetryTypes]_vars

\* the types the wrapper of thread t retries
RetriedTypes(t) ==
    IF frame[t].wrapper = "retry" THEN rp.retryable_exceptions
    ELSE frame[t].exception_types

\* C34: in retry and retry_if_exception_type a failure of the operation
\* whose type is outside the retried types is raised to the caller on the
\* attempt where it occurs, without a sleep, and the operation is not
\* invoked again, whatever the number of attempts left.
C34_NonRetryableFailureRaisedAtOnce ==
    [][/\ last'.op \in {"retry", "retry_if_exception_type"} =>
            LET n == Len(hist'.outcomes)
                outcome == hist'.outcomes[n]
            IN  (/\ outcome.kind = "raise"
                 /\ outcome.type \notin RetriedTypes(1)
                 /\ "Exception" \notin RetriedTypes(1))
                => /\ last'.how = "raise"
                   /\ last'.exception = [type |-> outcome.type, id |-> n]
                   /\ hist'.sleeps = hist.sleeps
                   /\ pc'[1] = "done"
       /\ pc[1] = "done" => hist' = hist]_vars

\* the first failure was retried, the second, of another type, was raised
\* at once with one attempt left
C34_Witness ==
    /\ last.op = "retry_if_exception_type" /\ last.how = "raise"
    /\ last.exception = [type |-> "KeyError", id |-> 2]
    /\ frame[1].exception_types = {"IOError"}
    /\ rp.max_attempts = 3
    /\ Len(hist.outcomes) = 2 /\ hist.outcomes[1].type = "IOError"
    /\ Len(hist.sleeps) = 1

\* C35: with jitter enabled the delay computed for attempt n is within
\* [0.9 * d, 1.1 * d] for d = min(base_delay * exponential_base^n,
\* max_delay), and it is never negative.
C35_JitterWithinTenPercent ==
    (last.op = "_calculate_delay" /\ rp.jitter) =>
        LET d == Min(rp.base_delay * Pow(rp.exponential_base, last.attempt),
                     rp.max_delay)
        IN  /\ 9 * d <= 10 * last.value
            /\ 10 * last.value <= 11 * d
            /\ last.value >= 0

\* C36: no delay the policy computes exceeds max_delay, for every attempt
\* number, with jitter enabled or disabled.
C36_DelayNeverAboveMaxDelay ==
    last.op = "_calculate_delay" => last.value <= rp.max_delay

\* ------------------------------------------- CircuitBreaker: late outcomes
\* C39: while the breaker stays OPEN opened_at does not change: the outcome
\* (success or classified failure) of a call that completes while the breaker
\* is OPEN leaves the state OPEN and opened_at as it was.
C39_LateOutcomeKeepsOpenedAt ==
    [][(cb.state = OPEN /\ OutcomeStep
            /\ last'.value \in {"success", "classified"}) =>
        /\ cb'.state = OPEN
        /\ cb'.opened_at = cb.opened_at]_vars

\* C40: in every reachable state, of CircuitBreaker and of
\* AdaptiveCircuitBreaker, a CLOSED breaker has a consecutive-failure count
\* strictly below the current failure_threshold.
C40_ClosedBelowThreshold ==
    cb.state = CLOSED => cb.failure_count < cb.failure_threshold

\* ------------------------- AdaptiveCircuitBreaker under concurrent callers
\* AdaptiveCircuitBreaker._on_success and _on_failure take the lock only
\* inside super()._on_success() / super()._on_failure(); the statements after
\* it run unlocked.  self._window_calls += 1 is a load of the attribute and a
\* store of the sum, and another thread may run between the two; so may it
\* between the decision of _maybe_adapt_threshold and its assignments.  Each
\* action below is a stretch of one thread's code that no other thread
\* interrupts.  frame[t] holds the thread's operand stack and locals; hist
\* counts the outcomes recorded since the window was last reset, and the
\* window resets made.
\* The breaker starts at max_threshold with adaptation_period 0 and the
\* clock stands still: an adaptation is due as soon as the window holds the
\* minimum of samples, and an open circuit stays open.
NoLocals == [outcome |-> "", loaded |-> None, new_threshold |-> None]

\* history after an outcome was recorded under the lock
CountOutcome(h, outcome) ==
    [h EXCEPT !.window_outcomes = @ + 1,
              !.window_failures = @ + (IF outcome = "classified" THEN 1 ELSE 0)]

InitAdaptiveRace ==
    /\ \E bounds \in AdaptiveBounds :
          cb = NewAdaptiveCircuitBreaker(bounds[2], 0, bounds[1], bounds[2],
                                         1, 1, FALSE, 0)
    /\ now = 0
    /\ pc = [t \in Threads |-> "idle"]
    /\ invocations = 0
    /\ probe_successes = 0
    /\ last = Result("init", "none", None, "", Quiet(cb))
    /\ UnusedLimiter /\ UnusedDistributed /\ UnusedRetry /\ UnusedQueue
    /\ frame = [t \in Threads |-> NoLocals]
    /\ hist = [window_outcomes |-> 0, window_failures |-> 0, adaptations |-> 0]

\* what the steps of an outcome handler leave alone
others_race == <<now, invocations, rl, dl, redis, rp, dlq, disk>>

\* func returned or raised: super()._on_success() / super()._on_failure(e),
\* one critical section; an unclassified exception leaves call() at once
SuperOutcome(t, outcome) ==
    /\ pc[t] = "call"
    /\ LET s == IF outcome = "success" THEN base_on_success(cb, now, FALSE)
                ELSE IF outcome = "classified" THEN base_on_failure(cb, now, FALSE)
                ELSE Quiet(cb)
       IN  /\ cb' = s.b
           /\ probe_successes' = ProbeAfter(cb, s.b, outcome, probe_successes)
           /\ last' = Result("super_outcome", "none", None, outcome, s)
    /\ IF outcome = "unclassified"
       THEN /\ pc' = [pc EXCEPT ![t] = "idle"]
            /\ UNCHANGED <<frame, hist>>
       ELSE /\ pc' = [pc EXCEPT ![t] = "load_calls"]
            /\ frame' = [frame EXCEPT ![t] = [NoLocals EXCEPT !.outcome = outcome]]
            /\ hist' = CountOutcome(hist, outcome)
    /\ UNCHANGED others_race

\* self._window_calls += 1: the load
LoadWindowCalls(t) ==
    /\ pc[t] = "load_calls"
    /\ frame' = [frame EXCEPT ![t].loaded = cb.window_calls]
    /\ pc' = [pc EXCEPT ![t] = "store_calls"]
    /\ last' = Result("load_calls", "none", None, "", Quiet(cb))
    /\ UNCHANGED <<cb, probe_successes, hist>>
    /\ UNCHANGED others_race

\* self._window_calls += 1: the store
StoreWindowCalls(t) ==
    /\ pc[t] = "store_calls"
    /\ cb' = [cb EXCEPT !.window_calls = frame[t].loaded + 1]
    /\ pc' = [pc EXCEPT ![t] = IF frame[t].outcome = "classified"
                                THEN "load_failures" ELSE "adapt"]
    /\ last' = Result("store_calls", "none", None, "", Quiet(cb'))
    /\ UNCHANGED <<frame, probe_successes, hist>>
    /\ UNCHANGED others_race

\* self._window_failures += 1: the load
LoadWindowFailures(t) ==
    /\ pc[t] = "load_failures"
    /\ frame' = [frame EXCEPT ![t].loaded = cb.window_failures]
    /\ pc' = [pc EXCEPT ![t] = "store_failures"]
    /\ last' = Result("load_failures", "none", None, "", Quiet(cb))
    /\ UNCHANGED <<cb, probe_successes, hist>>
    /\ UNCHANGED others_race

\* self._window_failures += 1: the store
StoreWindowFailures(t) ==
    /\ pc[t] = "store_failures"
    /\ cb' = [cb EXCEPT !.window_failures = frame[t].loaded + 1]
    /\ pc' = [pc EXCEPT ![t] = "adapt"]
    /\ last' = Result("store_failures", "none", None, "", Quiet(cb'))
    /\ UNCHANGED <<frame, probe_successes, hist>>
    /\ UNCHANGED others_race

\* _maybe_adapt_threshold up to new_threshold: the two early returns, then
\* the threshold the error rate of the window asks for
adapt_decision(b, t) ==
    IF t - b.last_adaptation < b.adaptation_period THEN None
    ELSE IF b.window_calls < MinSamples THEN None
    ELSE IF error_rate_high(b.window_failures, b.window_calls)
         THEN Max(b.min_threshold, b.failure_threshold - 1)
    ELSE IF error_rate_low(b.window_failures, b.window_calls)
         THEN Min(b.max_threshold, b.failure_threshold + 1)
    ELSE b.failure_threshold

MaybeAdaptDecide(t) ==
    /\ pc[t] = "adapt"
    /\ LET new_threshold == adapt_decision(cb, now)
       IN  IF new_threshold = None
           THEN /\ pc' = [pc EXCEPT ![t] = "idle"]
                /\ frame' = [frame EXCEPT ![t] = NoLocals]
           ELSE /\ pc' = [pc EXCEPT ![t] = "adapt_apply"]
                /\ frame' = [frame EXCEPT ![t].new_threshold = new_threshold]
    /\ last' = Result("adapt_decide", "none", None, "", Quiet(cb))
    /\ UNCHANGED <<cb, probe_successes, hist>>
    /\ UNCHANGED others_race

\* _maybe_adapt_threshold from `if new_threshold != self.failure_threshold`
\* on: the threshold is assigned and the window reset
MaybeAdaptApply(t) ==
    /\ pc[t] = "adapt_apply"
    /\ cb' = [cb EXCEPT !.failure_threshold = frame[t].new_threshold,
                        !.last_adaptation = now,
                        !.window_calls = 0, !.window_failures = 0]
    /\ hist' = [hist EXCEPT !.window_outcomes = 0, !.window_failures = 0,
                            !.adaptations = @ + 1]
    /\ pc' = [pc EXCEPT ![t] = "idle"]
    /\ frame' = [frame EXCEPT ![t] = NoLocals]
    /\ last' = Result("adapt_apply", "none", None, "", Quiet(cb'))
    /\ UNCHANGED probe_successes
    /\ UNCHANGED others_race

NextAdaptiveRace ==
    \/ \E t \in DOMAIN pc : Call(t, FALSE)
    \/ \E t \in DOMAIN pc, o \in Outcomes : SuperOutcome(t, o)
    \/ \E t \in DOMAIN pc : LoadWindowCalls(t)
    \/ \E t \in DOMAIN pc : StoreWindowCalls(t)
    \/ \E t \in DOMAIN pc : LoadWindowFailures(t)
    \/ \E t \in DOMAIN pc : StoreWindowFailures(t)
    \/ \E t \in DOMAIN pc : MaybeAdaptDecide(t)
    \/ \E t \in DOMAIN pc : MaybeAdaptApply(t)

SpecAdaptiveRace == InitAdaptiveRace /\ [][NextAdaptiveRace]_vars

\* no thread is between the recording of an outcome and the end of its handler
NoOutcomePending == \A t \in DOMAIN pc : pc[t] \in {"idle", "call"}

\* C33: under concurrent calls on one AdaptiveCircuitBreaker, whenever no
\* outcome handler is under way window_calls is the number of outcomes
\* recorded since the last window reset and window_failures the number of
\* failures among them, and every adaptation made has used up a window of at
\* least 10 outcomes of its own.
C33_WindowCountsEveryOutcome ==
    NoOutcomePending =>
        /\ cb.window_calls = hist.window_outcomes
        /\ cb.window_failures = hist.window_failures
        /\ MinSamples * hist.adaptations <= cb.total_calls

\* ------------------------------------------------ CircuitBreaker: the lock
\* self._lock is taken by the state property, _on_success, _on_failure,
\* get_metrics and reset, and each of them but get_metrics may call
\* _transition_to inside the `with self._lock` block.  _transition_to assigns
\* the new state and then calls the observer, so the observer runs before the
\* block is left.  hist.lock_owner is the thread holding the lock (NoThread
\* when it is free); a thread inside the observer is at pc "observer" and
\* frame[t].resume is where it goes when the observer returns.  The steps of
\* a method between taking the lock and the observer call, and the steps
\* after the observer up to the end of the method, are one action each.
NoThread == 0

InitLock ==
    /\ \E ft \in 1..MaxThreshold, st \in 1..MaxThreshold, to \in Timeouts,
          obs \in BOOLEAN :
          cb = NewCircuitBreaker(ft, st, to, obs)
    /\ now = 0
    /\ pc = [t \in Threads |-> "idle"]
    /\ invocations = 0
    /\ probe_successes = 0
    /\ last = Result("init", "none", None, "", Quiet(cb))
    /\ UnusedLimiter /\ UnusedDistributed /\ UnusedRetry /\ UnusedQueue
    /\ frame = [t \in Threads |-> [resume |-> "idle"]]
    /\ hist = [lock_owner |-> NoThread]

\* what the locked operations leave alone
others_lock == <<now, rl, dl, redis, rp, dlq, disk>>

\* with self._lock: blocks while another thread holds the lock
acquire(t) == hist.lock_owner = NoThread

\* A thread leaves the locked part `s` of a method: into the observer, the
\* lock still held, when _transition_to calls it; else out of the block,
\* to `resume`.
LockedStep(t, s, resume) ==
    /\ cb' = s.b
    /\ IF s.notified # <<>>
       THEN /\ pc' = [pc EXCEPT ![t] = "observer"]
            /\ frame' = [frame EXCEPT ![t].resume = resume]
            /\ hist' = [hist EXCEPT !.lock_owner = t]
       ELSE /\ pc' = [pc EXCEPT ![t] = resume]
            /\ UNCHANGED <<frame, hist>>

\* call(): current_state = self.state, up to the point where func is entered
LockedCall(t) ==
    /\ pc[t] = "idle"
    /\ acquire(t)
    /\ LET s == state_property(cb, now, FALSE)
           current_state == s.b.state
       IN  /\ probe_successes' = ProbeAfter(cb, s.b, "", probe_successes)
           /\ IF current_state = OPEN
              THEN /\ LockedStep(t, s, "idle")
                   /\ last' = Result("call", "CircuitBreakerOpen", s.b.timeout,
                                     current_state, s)
                   /\ UNCHANGED invocations
              ELSE /\ invocations < CallBudget(cb)
                   /\ invocations' = invocations + 1
                   /\ LockedStep(t, s, "call")
                   /\ last' = Result("call", "none", None, current_state, s)
    /\ UNCHANGED others_lock

\* call(), from the return of func on: _on_success() / _on_failure(e)
LockedCallReturn(t, outcome) ==
    /\ pc[t] = "call"
    /\ outcome = "unclassified" \/ acquire(t)
    /\ LET s == call_outcome(cb, outcome, now, FALSE)
           exc == IF outcome = "success" THEN "none" ELSE outcome
       IN  /\ LockedStep(t, s, "idle")
           /\ probe_successes' = ProbeAfter(cb, s.b, outcome, probe_successes)
           /\ last' = Result("call_return", exc, None, outcome, s)
    /\ UNCHANGED invocations
    /\ UNCHANGED others_lock

\* a read of the state property
LockedStateRead(t) ==
    /\ pc[t] = "idle"
    /\ acquire(t)
    /\ LET s == state_property(cb, now, FALSE)
       IN  /\ LockedStep(t, s, "idle")
           /\ probe_successes' = ProbeAfter(cb, s.b, "", probe_successes)
           /\ last' = Result("state", "none", None, s.b.state, s)
    /\ UNCHANGED invocations
    /\ UNCHANGED others_lock

\* get_metrics()
LockedGetMetrics(t) ==
    /\ pc[t] = "idle"
    /\ acquire(t)
    /\ last' = [Result("get_metrics", "none", None, "", Quiet(cb))
                    EXCEPT !.metrics = get_metrics(cb)]
    /\ UNCHANGED <<cb, pc, invocations, probe_successes, frame, hist>>
    /\ UNCHANGED others_lock

\* reset()
LockedReset(t) ==
    /\ pc[t] = "idle"
    /\ acquire(t)
    /\ LET s == transition_to(cb, CLOSED, now, FALSE)
       IN  /\ LockedStep(t, s, "idle")
           /\ probe_successes' = ProbeAfter(cb, s.b, "", probe_successes)
           /\ last' = Result("reset", "none", None, "", s)
    /\ UNCHANGED invocations
    /\ UNCHANGED others_lock

\* on_state_change returns or raises (the exception is caught and logged);
\* _transition_to returns, the `with self._lock` block is left
ObserverReturn(t, raises) ==
    /\ pc[t] = "observer"
    /\ pc' = [pc EXCEPT ![t] = frame[t].resume]
    /\ frame' = [frame EXCEPT ![t].resume = "idle"]
    /\ hist' = [hist EXCEPT !.lock_owner = NoThread]
    /\ last' = [Result("observer_return", "none", None, "", Quiet(cb))
                    EXCEPT !.observer_raised = raises]
    /\ UNCHANGED <<cb, invocations, probe_successes>>
    /\ UNCHANGED others_lock

NextLock ==
    \/ Tick
    \/ \E t \in DOMAIN pc : LockedCall(t)
    \/ \E t \in DOMAIN pc, o \in Outcomes : LockedCallReturn(t, o)
    \/ \E t \in DOMAIN pc : LockedStateRead(t)
    \/ \E t \in DOMAIN pc : LockedGetMetrics(t)
    \/ \E t \in DOMAIN pc : LockedReset(t)
    \/ \E t \in DOMAIN pc, raises \in BOOLEAN : ObserverReturn(t, raises)

SpecLock == InitLock /\ [][NextLock]_vars

\* the thread is inside code the caller supplied
InCallerCode(t) == pc[t] \in {"call", "observer"}

\* C32: no caller-supplied code runs while the breaker's lock is held: a
\* thread inside the protected operation or inside the state-change observer
\* does not hold the lock.
C32_NoCallerCodeUnderLock ==
    \A t \in DOMAIN pc : InCallerCode(t) => hist.lock_owner # t
====
